---- MODULE Spec2Model ----
(***************************************************************************)
(* State-machine model of the racing core of kimgh06/racing:               *)
(*   - InputQueue            (entities/player/model/playerTypes.ts)        *)
(*   - InputProcessor        (entities/player/model/inputProcessor.ts)     *)
(*   - Player movement loop  (Player component with the fixed timestep)    *)
(*   - Checkpoint callbacks  (entities/checkpoint/Checkpoint.tsx)          *)
(*   - checkpoint, ghost and timer stores (zustand)                        *)
(*                                                                         *)
(* Time.  Every duration and every clock reading is an integer number of   *)
(* quanta of 1/240 s.  performance.now() (milliseconds), the frame delta   *)
(* and gameTime (seconds) are all counted in that quantum, so the          *)
(* fixed time step of 1/120 s is two quanta.                               *)
(***************************************************************************)
EXTENDS Integers, Sequences, FiniteSets, TLC

(***************************************************************************)
(* Bounds of the model.                                                    *)
(***************************************************************************)
\* last clock reading the model explores in the input-queue specification
MaxTime == 3
\* capacity of the input log; stands for the literal 1000 of addInput
QueueCap == 3
\* largest value the running sequence counter (frameCounter) may reach
MaxFrameCounter == 4
\* last clock reading of the two-run movement-loop specification
LoopHorizon == 4
\* key events per session in the two-run movement-loop specification
LoopEvents == 2
\* last clock reading of the frame-spike specification
SpikeHorizon == 25
\* the long frame delta of the frame-spike specification (> 10 x fixedStep)
SpikeDelta == 22
\* the short frame delta of the frame-spike specification
ShortDelta == 5
\* key events per session in the frame-spike specification
SpikeEvents == 1
\* highest checkpoint index of the tracks of the race specification
MaxTotal == 2
\* last clock reading of the race specification
RaceHorizon == 5
\* last clock reading of the ghost specification
GhostHorizon == 4
\* number of uses of the playback controls in the ghost specification
GhostOps == 2
\* last clock reading of the panel specification
PanelHorizon == 2
\* number of key events of the panel specification
PanelKeys == 1
\* number of uses of the panel's controls
MaxPanelOps == 2
\* largest sample time of the interpolation specification
InterpMaxT == 3
\* largest number of samples of the interpolation specification
InterpLen == 3
\* largest time step of the kart specification
KartMaxDt == 2
\* last clock reading of the player specification
PlayerHorizon == 2
\* key events of the player specification
PlayerEvents == 2
\* largest save-point id of the scene (maxId)
SaveMaxId == 2
\* last clock reading of the save-point specification
SaveHorizon == 3
\* intersection events of the save-point specification
SaveEvents == 4
\* last clock reading of the start specification
StartHorizon == 3
\* last clock reading of the jump specification
JumpHorizon == 4
\* key events of the jump specification
JumpEvents == 1
\* largest timestamp of the queue specification
QueueMaxTime == 1
\* number of method calls in the queue specification
QueueCalls == 4

(***************************************************************************)
(* Program constants.                                                      *)
(***************************************************************************)
\* type InputAction
InputAction == {"forward", "backward", "turnLeft", "turnRight", "jump"}
\* the keys the modelled user operates (keyToAction maps five keys; the
\* model presses two of them)
Keys == {"forward", "jump"}
\* const fixedTimeStep = 1 / 120, in quanta of 1/240 s
FixedTimeStep == 2
\* const maxSteps = 10
MaxSteps == 10
\* the two executions of the movement loop that are compared; run 1 is the
\* player, run 2 is the same player rendered with other frame times
Runs == {1, 2}

VARIABLES
    now,            \* performance.now()
    inputQueue,     \* the InputQueue object: queue, currentInputs,
                    \*   gameStartTime, frameCounter
    lastPressed,    \* history: pressed flag of the latest addInput call of
                    \*   each action ("none" before the first call)
    liveAt,         \* history: liveAt[t] = live active set at clock reading t
    lastOp,         \* history: the handler that ran last
    scope,          \* the part of the input space a specification explores:
                    \*   horizon (last clock reading), deltas (clock
                    \*   advances), events (key events per session), keys
    run,            \* per run: the refs of the Player component
                    \*   (accumulatedTime, gameTime, rotation,
                    \*   angularVelocity) and the history of its frames
    checkPointStore, \* useCheckPointStore: checkpoints (total, last, laps),
                    \*   cpInside, startIndex, respawnPosition/Rotation/Roll
    ghostStore,     \* useGhostStore
    timeStore,      \* useTimeStore
    physics,        \* the physics engine as the callbacks query it: does
                    \*   the player object exist, which sensors its box
                    \*   overlaps, where it is
    frame,          \* the render tick in progress: the callback that runs
                    \*   next and the clock reading of the latest tick
    hist,           \* history of the checkpoint callbacks
    kart,           \* a KartState with the input, parameters and time step
                    \*   of the stepKart call made or to be made on it, and
                    \*   the state before the call
    player,         \* the player as the movement tick sees it: the stored
                    \*   drive speed, the body's onGround flag and contact
                    \*   with an obstacle, the isJumping state and the
                    \*   value of it the frame callback was rendered with
    engine,         \* usePhysicsEngine while the scene mounts: engineRef
                    \*   set or not, the timers pending, the objects made
    carStore,       \* useCarStore: savePointId, lapTime
    ui              \* what lies outside the stores and the queue: the
                    \*   latest call made on them by the panel or by a
                    \*   caller of the queue (op, arg), the string the
                    \*   latest export returned (text), whether the latest
                    \*   call or callback threw (threw), the position of
                    \*   the ghost mesh (ghost), the calls made (calls)

raceVars ==
    <<checkPointStore, ghostStore, timeStore, physics, frame, hist, ui>>

vars == <<now, inputQueue, lastPressed, liveAt, lastOp, scope, run,
          checkPointStore, ghostStore, timeStore, physics, frame, hist, ui,
          kart, player, engine, carStore>>

(***************************************************************************)
(* Nullable values: null is the empty tuple, a present value v is <<v>>.   *)
(***************************************************************************)
Null == <<>>

Some(v) == <<v>>

Max(a, b) == IF a >= b THEN a ELSE b

(***************************************************************************)
(* Helpers on sequences.                                                   *)
(***************************************************************************)
Range(s) == {s[i] : i \in 1..Len(s)}

\* Array.prototype.splice(i, 0, e) with a 0-based index i
Splice(s, i, e) == SubSeq(s, 1, i) \o <<e>> \o SubSeq(s, i + 1, Len(s))

ShiftLast(s) == SubSeq(s, 1, Len(s) - 1)

\* Array.prototype.shift()
Shift(s) == SubSeq(s, 2, Len(s))

\* Set.prototype.add on an insertion-ordered set
OrderedAdd(s, a) == IF a \in Range(s) THEN s ELSE Append(s, a)

\* Set.prototype.delete on an insertion-ordered set
OrderedDelete(s, a) == SelectSeq(s, LAMBDA x : x # a)

(***************************************************************************)
(* InputQueue                                                              *)
(***************************************************************************)
NewInputQueue ==
    [queue |-> <<>>, currentInputs |-> <<>>, gameStartTime |-> 0,
     frameCounter |-> 0]

SetGameStartTime(iq, time) ==
    [iq EXCEPT !.gameStartTime = time, !.frameCounter = 0]

RECURSIVE BinarySearch(_, _, _, _)
BinarySearch(q, timestamp, left, right) ==
    IF left < right
    THEN LET mid == (left + right) \div 2
         IN  IF q[mid + 1].timestamp < timestamp
             THEN BinarySearch(q, timestamp, mid + 1, right)
             ELSE BinarySearch(q, timestamp, left, mid)
    ELSE left

FindInsertIndexAppend(q, timestamp) == Len(q)

FindInsertIndex(q, timestamp) == BinarySearch(q, timestamp, 0, Len(q))

\* the update of the live set in addInput: add on press, delete on release
UpdateCurrentInputsStuck(cur, action, pressed) == OrderedAdd(cur, action)

UpdateCurrentInputs(cur, action, pressed) ==
    IF pressed THEN OrderedAdd(cur, action) ELSE OrderedDelete(cur, action)

AddInput(iq, action, pressed, time) ==
    LET event == [action |-> action, pressed |-> pressed,
                  timestamp |-> time, frame |-> iq.frameCounter]
        inserted == Splice(iq.queue, FindInsertIndex(iq.queue, time), event)
    IN  [iq EXCEPT
            !.frameCounter = iq.frameCounter + 1,
            !.currentInputs = UpdateCurrentInputs(iq.currentInputs, action, pressed),
            !.queue = IF Len(inserted) > QueueCap THEN Shift(inserted)
                      ELSE inserted]

GetCurrentInputs(iq) == Range(iq.currentInputs)

\* gameTime * 1000: seconds to milliseconds, both counted in quanta
SecToMs(gameTime) == gameTime

RECURSIVE ScanActive(_, _, _, _)
ScanActive(q, i, targetTime, active) ==
    IF i > Len(q) THEN active
    ELSE IF q[i].timestamp > targetTime THEN active
    ELSE ScanActive(q, i + 1, targetTime,
                    IF q[i].pressed THEN active \cup {q[i].action}
                    ELSE active \ {q[i].action})

GetActiveInputsAt(iq, gameTime) ==
    ScanActive(iq.queue, 1, iq.gameStartTime + SecToMs(gameTime), {})

ClearLogOnly(iq) == [iq EXCEPT !.queue = <<>>]

Clear(iq) == [iq EXCEPT !.queue = <<>>, !.currentInputs = <<>>]

\* queue.filter with eventGameTime <= gameTime
GetInputsUntil(iq, currentTime) ==
    LET gameTime == currentTime - iq.gameStartTime
    IN  SelectSeq(iq.queue,
                  LAMBDA event : event.timestamp - iq.gameStartTime <= gameTime)

\* the queue after consumeInputsUntil (remaining) and its return value
\* (processed)
ConsumeInputsUntil(iq, currentTime) ==
    LET gameTime == currentTime - iq.gameStartTime
    IN  [processed |->
            SelectSeq(iq.queue,
                LAMBDA event : event.timestamp - iq.gameStartTime <= gameTime),
         remaining |->
            SelectSeq(iq.queue,
                LAMBDA event : ~(event.timestamp - iq.gameStartTime <= gameTime))]

(***************************************************************************)
(* JSON.  A JSON text is the tree of its value: every node carries a type, *)
(* a number, a string and its children (the members of an object are       *)
(* children of type "member" whose string is the key).  A string that is   *)
(* not JSON is the node of type "syntax error".                            *)
(***************************************************************************)
JNode(type, num, str, elems) ==
    [type |-> type, num |-> num, str |-> str, elems |-> elems]

JNumber(n) == JNode("number", n, "", <<>>)

JString(s) == JNode("string", 0, s, <<>>)

JBool(b) == JNode(IF b THEN "true" ELSE "false", 0, "", <<>>)

JNull == JNode("null", 0, "", <<>>)

JArray(elems) == JNode("array", 0, "", elems)

JMember(key, value) == JNode("member", 0, key, <<value>>)

JObject(members) == JNode("object", 0, "", members)

NotJson == JNode("syntax error", 0, "", <<>>)

\* the value of property key of a parsed node: Null stands for undefined
JGet(node, key) ==
    IF node.type # "object" THEN Null
    ELSE LET hits == SelectSeq(node.elems, LAMBDA m : m.str = key)
         IN  IF Len(hits) = 0 THEN Null ELSE Some(hits[Len(hits)].elems[1])

(***************************************************************************)
(* InputQueue.serialize and InputQueue.deserialize.                        *)
(***************************************************************************)
EventToJson(event) ==
    JObject(<<JMember("action", JString(event.action)),
              JMember("pressed", JBool(event.pressed)),
              JMember("timestamp", JNumber(event.timestamp)),
              JMember("frame", JNumber(event.frame))>>)

EventFromJson(node) ==
    [action |-> JGet(node, "action")[1].str,
     pressed |-> JGet(node, "pressed")[1].type = "true",
     timestamp |-> JGet(node, "timestamp")[1].num,
     frame |-> JGet(node, "frame")[1].num]

SerializeNoCounter(iq) ==
    JObject(<<JMember("queue",
                      JArray([i \in 1..Len(iq.queue) |->
                                 EventToJson(iq.queue[i])])),
              JMember("gameStartTime", JNumber(iq.gameStartTime))>>)

Serialize(iq) ==
    JObject(<<JMember("queue",
                      JArray([i \in 1..Len(iq.queue) |->
                                 EventToJson(iq.queue[i])])),
              JMember("gameStartTime", JNumber(iq.gameStartTime)),
              JMember("frameCounter", JNumber(iq.frameCounter))>>)

\* the replay of the log that rebuilds currentInputs
RECURSIVE ReplayInputs(_, _, _)
ReplayInputs(q, i, cur) ==
    IF i > Len(q) THEN cur
    ELSE ReplayInputs(q, i + 1,
                      UpdateCurrentInputs(cur, q[i].action, q[i].pressed))

\* deserialize of a text serialize returned
Deserialize(iq, data) ==
    LET elems == JGet(data, "queue")[1].elems
        queue == [i \in 1..Len(elems) |-> EventFromJson(elems[i])]
        counter == JGet(data, "frameCounter")
    IN  [queue |-> queue,
         gameStartTime |-> JGet(data, "gameStartTime")[1].num,
         frameCounter |-> IF counter = Null THEN 0 ELSE counter[1].num,
         currentInputs |-> ReplayInputs(queue, 1, <<>>)]

(***************************************************************************)
(* resetPlayer: the part that acts on the input queue.                     *)
(***************************************************************************)
RECURSIVE ReAddHeld(_, _, _)
ReAddHeld(iq, held, time) ==
    IF held = <<>> THEN iq
    ELSE ReAddHeld(AddInput(iq, Head(held), TRUE, time), Tail(held), time)

ResetInputQueueDropHeld(iq, time) == SetGameStartTime(Clear(iq), time)

ResetInputQueue(iq, time) ==
    LET activeInputsBeforeReset == iq.currentInputs
    IN  ReAddHeld(SetGameStartTime(Clear(iq), time),
                  activeInputsBeforeReset, time)

(***************************************************************************)
(* InputProcessor.computeMovement.  angularVelocity is counted in units of *)
(* turnSpeed and the rotation gained in one step in units of               *)
(* turnSpeed * fixedTimeStep.  turnSpeed = 1.5 / sqrt(weight / 70) is      *)
(* below 2 for the weights the scenes use (70, 80), so one step without a  *)
(* turn input takes |angularVelocity| to 0.05 * turnSpeed < 0.1, which the *)
(* code snaps to 0.                                                        *)
(***************************************************************************)
ComputeMovement(movementState, activeInputs) ==
    LET angularVelocity ==
            IF "turnLeft" \in activeInputs THEN 1
            ELSE IF "turnRight" \in activeInputs THEN -1
            ELSE 0
    IN  [rotation |-> [movementState.rotation EXCEPT
                          !.turn = movementState.rotation.turn + angularVelocity],
         angularVelocity |-> angularVelocity,
         velocity |-> IF "forward" \in activeInputs THEN "forward"
                      ELSE IF "backward" \in activeInputs THEN "backward"
                      ELSE "zero",
         shouldJump |-> "jump" \in activeInputs]

(***************************************************************************)
(* The Player component with the fixed time step.                          *)
(* rotation = yaw * (pi / 2) + turn * (turnSpeed * fixedTimeStep).         *)
(***************************************************************************)
NewRun ==
    [accumulatedTime |-> 0, gameTime |-> 0,
     rotation |-> [yaw |-> 0, turn |-> 0], angularVelocity |-> 0,
     lastFrameTime |-> 0,      \* clock reading of the previous frame
     stepsProcessed |-> 0,     \* stepsProcessed at the end of the last frame
     sumDelta |-> 0,           \* history: frame deltas added since the reset
     frameTimes |-> {},        \* history: clock readings of the frames
     substepLog |-> <<>>]      \* history: game time and inputs of each substep

\* the merge of the live set with the set reconstructed from the log
MergeInputsLogOnly(iq, gameTime) == GetActiveInputsAt(iq, gameTime)

MergeInputs(iq, gameTime) ==
    GetCurrentInputs(iq) \cup GetActiveInputsAt(iq, gameTime)

\* the value of accumulatedTime one substep leaves behind
ConsumeStepCapDrops(accumulatedTime, stepsProcessed) ==
    IF stepsProcessed + 1 = MaxSteps THEN 0
    ELSE accumulatedTime - FixedTimeStep

ConsumeStep(accumulatedTime, stepsProcessed) ==
    accumulatedTime - FixedTimeStep

\* the while loop of the frame callback
RECURSIVE SubSteps(_, _, _)
SubSteps(r, iq, stepsProcessed) ==
    IF r.accumulatedTime >= FixedTimeStep /\ stepsProcessed < MaxSteps
    THEN LET gameTime == r.gameTime + FixedTimeStep
             activeInputs == MergeInputs(iq, gameTime)
             movement == ComputeMovement(
                 [rotation |-> r.rotation,
                  angularVelocity |-> r.angularVelocity], activeInputs)
         IN  SubSteps(
                 [r EXCEPT
                     !.gameTime = gameTime,
                     !.rotation = movement.rotation,
                     !.angularVelocity = movement.angularVelocity,
                     !.accumulatedTime =
                         ConsumeStep(r.accumulatedTime, stepsProcessed),
                     !.substepLog = Append(r.substepLog,
                         [gameTime |-> gameTime, activeInputs |-> activeInputs])],
                 iq, stepsProcessed + 1)
    ELSE [r EXCEPT !.stepsProcessed = stepsProcessed]

\* the useFrame callback, called with the time since the previous frame
FrameCallback(r, iq, time) ==
    LET delta == time - r.lastFrameTime
    IN  SubSteps([r EXCEPT !.accumulatedTime = r.accumulatedTime + delta,
                           !.sumDelta = r.sumDelta + delta,
                           !.frameTimes = r.frameTimes \cup {time},
                           !.lastFrameTime = time],
                 iq, 0)

\* resetPlayer: the refs of the Player component.  The respawn yaw is the
\* stored respawn rotation (null before any checkpoint: 0) plus pi.
ResetRun(r) ==
    [r EXCEPT !.rotation = [yaw |-> 2, turn |-> 0],
              !.angularVelocity = 0,
              !.gameTime = 0,
              !.accumulatedTime = 0,
              !.sumDelta = 0,
              !.substepLog = <<>>]

(***************************************************************************)
(* The track of the scene.  Lengths are in centimetres, angles in quarter  *)
(* turns (pi / 2).                                                         *)
(***************************************************************************)
\* startCenter, cp2, cp3, cpEnd
Center(index) ==
    CASE index = 0 -> <<2500, 1, 0>>
      [] index = 1 -> <<0, 1, 1500>>
      [] index = 2 -> <<-2500, 1, 0>>
      [] OTHER -> <<0, 1, -1500>>

\* the rotationZ prop of each <Checkpoint>
RotationZ(index) ==
    CASE index = 0 -> 0
      [] index = 1 -> -1
      [] index = 2 -> -2
      [] OTHER -> 1

\* the props of <Checkpoint index={index}>: index 0 is start and end
CheckpointProps(index) ==
    [index |-> index, center |-> Center(index),
     rotationZ |-> RotationZ(index), start |-> index = 0, end |-> index = 0]

\* <Player position={[28, 2, 0]}>
SpawnPoint == <<2800, 200, 0>>

\* center[1] + 3.0
RespawnLift == 300

\* event.code of the key of each action (keyToAction, read backwards)
KeyCode ==
    [forward |-> "KeyI", backward |-> "KeyK", turnLeft |-> "KeyJ",
     turnRight |-> "KeyL", jump |-> "Space"]

(***************************************************************************)
(* useCheckPointStore.                                                     *)
(***************************************************************************)
InitialCheckPointStore ==
    [checkpoints |-> [total |-> 0, last |-> 0, laps |-> 0],
     cpInside |-> <<>>,
     startIndex |-> Null,
     respawnPosition |-> Null,
     respawnRotation |-> Null,
     respawnRoll |-> Null]

\* checkpoints: { ...state.checkpoints, ...updates }
SetCheckpoints(store, updates) ==
    [store EXCEPT !.checkpoints =
        [k \in DOMAIN store.checkpoints |->
            IF k \in DOMAIN updates THEN updates[k]
            ELSE store.checkpoints[k]]]

\* cpInside: { ...state.cpInside, [index]: inside }
SetCpInside(store, index, inside) ==
    [store EXCEPT !.cpInside =
        [j \in (DOMAIN store.cpInside) \cup {index} |->
            IF j = index THEN inside ELSE store.cpInside[j]]]

\* !!state.cpInside[index]
WasInside(store, index) ==
    index \in DOMAIN store.cpInside /\ store.cpInside[index]

SetRespawnPositionOnly(store, props) ==
    [store EXCEPT
        !.respawnPosition = Some(<<props.center[1],
                                   props.center[2] + RespawnLift,
                                   props.center[3]>>)]

\* setRespawnPosition, setRespawnRotation, setRespawnRoll and, for the start
\* checkpoint, setStartIndex
SetRespawn(store, props) ==
    [store EXCEPT
        !.respawnPosition = Some(<<props.center[1],
                                   props.center[2] + RespawnLift,
                                   props.center[3]>>),
        !.respawnRotation = Some(props.rotationZ),
        !.respawnRoll = Some(props.rotationZ),
        !.startIndex = IF props.start THEN Some(props.index) ELSE @]

\* the mount effect of <Checkpoint>
MountEffect(store, props) ==
    LET counted == IF props.index >= store.checkpoints.total
                   THEN SetCheckpoints(store, [total |-> props.index])
                   ELSE store
    IN  IF /\ props.start
           /\ \/ counted.respawnPosition = Null
              \/ counted.checkpoints.last = 0
        THEN SetRespawn(counted, props)
        ELSE counted

\* the mount effects of the checkpoints index .. total, in scene order
RECURSIVE MountCheckpoints(_, _, _)
MountCheckpoints(store, index, total) ==
    IF index > total THEN store
    ELSE MountCheckpoints(MountEffect(store, CheckpointProps(index)),
                          index + 1, total)

(***************************************************************************)
(* useGhostStore.  Date.now() and performance.now() are read off the same  *)
(* clock.                                                                  *)
(***************************************************************************)
InitialGhostStore ==
    [isRecording |-> FALSE, isPlaying |-> FALSE, sessionStartTime |-> 0,
     playStartTime |-> 0, playIndex |-> 0, playOffsetMs |-> 0,
     isPaused |-> FALSE, recording |-> Null, lastRecording |-> Null]

StartRecording(g, time) ==
    [g EXCEPT !.isRecording = TRUE,
              !.sessionStartTime = time,
              !.recording = Some([meta |-> [version |-> 1, createdAt |-> time],
                                  inputs |-> <<>>, positions |-> <<>>])]

\* the store after stopRecording; its return value is g.recording
StopRecording(g) ==
    [g EXCEPT !.isRecording = FALSE, !.lastRecording = g.recording]

RecordPosition(g, position, time) ==
    IF ~g.isRecording \/ g.recording = Null THEN g
    ELSE LET t == Max(0, time - g.sessionStartTime)
         IN  [g EXCEPT !.recording =
                 Some([g.recording[1] EXCEPT !.positions =
                          Append(@, [t |-> t, position |-> position])])]

RecordInput(g, action, pressed, time) ==
    IF ~g.isRecording \/ g.recording = Null THEN g
    ELSE LET t == Max(0, time - g.sessionStartTime)
         IN  [g EXCEPT !.recording =
                 Some([g.recording[1] EXCEPT !.inputs =
                          Append(@, [t |-> t, action |-> action,
                                     pressed |-> pressed])])]

LoadRecording(g, json) == [g EXCEPT !.lastRecording = Some(json)]

\* rec.positions of a value lastRecording holds: Null stands for undefined.
\* A value importJson parsed from a text that is no recording is a record
\* with the one field json and has no positions.
PositionsOf(rec) ==
    IF "positions" \in DOMAIN rec THEN Some(rec.positions) ELSE Null

\* rec.positions.length and rec.positions.at(-1) throw a TypeError when
\* lastRecording is an object without positions
PositionsUndefined(g) ==
    /\ g.lastRecording # Null
    /\ PositionsOf(g.lastRecording[1]) = Null

\* the store after startPlayback; it is unchanged when the call throws
StartPlayback(g, time) ==
    IF g.lastRecording = Null THEN g
    ELSE IF PositionsUndefined(g) THEN g
    ELSE IF Len(g.lastRecording[1].positions) = 0 THEN g
    ELSE [g EXCEPT !.isPlaying = TRUE, !.isPaused = FALSE,
                   !.playStartTime = time, !.playIndex = 0,
                   !.playOffsetMs = 0]

StopPlayback(g) == [g EXCEPT !.isPlaying = FALSE, !.playIndex = 0]

PausePlaybackKeepOffset(g, time) ==
    IF ~g.isPlaying THEN g
    ELSE [g EXCEPT !.isPlaying = FALSE, !.isPaused = TRUE]

PausePlayback(g, time) ==
    IF ~g.isPlaying THEN g
    ELSE LET elapsed == time - g.playStartTime + g.playOffsetMs
         IN  [g EXCEPT !.isPlaying = FALSE, !.isPaused = TRUE,
                       !.playOffsetMs = elapsed]

ResumePlayback(g, time) ==
    IF g.lastRecording = Null THEN g
    ELSE [g EXCEPT !.isPlaying = TRUE, !.isPaused = FALSE,
                   !.playStartTime = time]

Min(a, b) == IF a <= b THEN a ELSE b

\* positions.at(-1)?.t ?? 0
LastT(positions) ==
    IF Len(positions) = 0 THEN 0 ELSE positions[Len(positions)].t

\* the store after seekTo; it is unchanged when the call throws
SeekTo(g, ms, time) ==
    IF g.lastRecording = Null THEN g
    ELSE IF PositionsUndefined(g) THEN g
    ELSE LET clamped == Max(0, Min(ms, LastT(g.lastRecording[1].positions)))
         IN  IF g.isPlaying
             THEN [g EXCEPT !.playStartTime = time, !.playOffsetMs = clamped]
             ELSE [g EXCEPT !.playOffsetMs = clamped]

\* what getDuration returns when it does not throw
GetDuration(g) ==
    IF g.lastRecording = Null THEN 0
    ELSE IF PositionsUndefined(g) THEN 0
    ELSE LastT(g.lastRecording[1].positions)

GetPlayhead(g, time) ==
    IF g.isPlaying THEN time - g.playStartTime + g.playOffsetMs
    ELSE g.playOffsetMs

(***************************************************************************)
(* exportJson and importJson: a recording as a JSON text and back.         *)
(***************************************************************************)
InputEventToJson(event) ==
    JObject(<<JMember("t", JNumber(event.t)),
              JMember("action", JString(event.action)),
              JMember("pressed", JBool(event.pressed))>>)

InputEventFromJson(node) ==
    [t |-> JGet(node, "t")[1].num,
     action |-> JGet(node, "action")[1].str,
     pressed |-> JGet(node, "pressed")[1].type = "true"]

PositionFrameToJsonNoTime(sample) ==
    JObject(<<JMember("t", JNumber(0)),
              JMember("position",
                      JArray([k \in 1..3 |-> JNumber(sample.position[k])]))>>)

PositionFrameToJson(sample) ==
    JObject(<<JMember("t", JNumber(sample.t)),
              JMember("position",
                      JArray([k \in 1..3 |-> JNumber(sample.position[k])]))>>)

PositionFrameFromJson(node) ==
    [t |-> JGet(node, "t")[1].num,
     position |-> [k \in 1..3 |-> JGet(node, "position")[1].elems[k].num]]

MetaToJson(meta) ==
    JObject(<<JMember("version", JNumber(meta.version)),
              JMember("createdAt", JNumber(meta.createdAt))>>)

\* JSON.stringify of a value lastRecording or recording holds
RecordingToJson(rec) ==
    IF "json" \in DOMAIN rec THEN rec.json
    ELSE JObject(<<JMember("meta", MetaToJson(rec.meta)),
                   JMember("inputs",
                           JArray([i \in 1..Len(rec.inputs) |->
                                      InputEventToJson(rec.inputs[i])])),
                   JMember("positions",
                           JArray([i \in 1..Len(rec.positions) |->
                                      PositionFrameToJson(rec.positions[i])]))>>)

\* a text in the persisted format
IsRecordingJson(node) ==
    /\ node.type = "object"
    /\ \A key \in {"meta", "inputs", "positions"} : JGet(node, key) # Null
    /\ JGet(node, "meta")[1].type = "object"
    /\ JGet(node, "inputs")[1].type = "array"
    /\ JGet(node, "positions")[1].type = "array"

\* JSON.parse of a text that parses: null is Null, a text in the persisted
\* format is the recording, an object without positions is a value without
\* positions
JsonParse(node) ==
    IF node.type = "null" THEN Null
    ELSE IF IsRecordingJson(node)
    THEN LET meta == JGet(node, "meta")[1]
             inputs == JGet(node, "inputs")[1].elems
             positions == JGet(node, "positions")[1].elems
         IN  Some([meta |-> [version |-> JGet(meta, "version")[1].num,
                             createdAt |-> JGet(meta, "createdAt")[1].num],
                   inputs |-> [i \in 1..Len(inputs) |->
                                  InputEventFromJson(inputs[i])],
                   positions |-> [i \in 1..Len(positions) |->
                                     PositionFrameFromJson(positions[i])]])
    ELSE Some([json |-> node])

\* what exportJson returns: Null stands for null
ExportJson(g) ==
    LET rec == IF g.lastRecording # Null THEN g.lastRecording ELSE g.recording
    IN  IF rec = Null THEN Null ELSE Some(RecordingToJson(rec[1]))

ImportJsonClearsOnError(g, jsonString) ==
    IF jsonString.type = "syntax error" THEN [g EXCEPT !.lastRecording = Null]
    ELSE [g EXCEPT !.lastRecording = JsonParse(jsonString)]

\* JSON.parse throws on a text that is no JSON; the catch ignores it
ImportJson(g, jsonString) ==
    IF jsonString.type = "syntax error" THEN g
    ELSE [g EXCEPT !.lastRecording = JsonParse(jsonString)]

(***************************************************************************)
(* useTimeStore.                                                           *)
(***************************************************************************)
InitialTimeStore ==
    [startTime |-> 0, lapStartTime |-> 0, lastLapMs |-> Null,
     bestLapMs |-> Null, lapTimes |-> <<>>]

SetStartTime(t, startTime) == [t EXCEPT !.startTime = startTime]

StartLap(t, time) == [t EXCEPT !.lapStartTime = time]

RECURSIVE MinOf(_)
MinOf(times) ==
    IF Len(times) = 1 THEN times[1]
    ELSE LET rest == MinOf(Tail(times))
         IN  IF times[1] <= rest THEN times[1] ELSE rest

CompleteLap(t, time) ==
    IF t.lapStartTime = 0 THEN [t EXCEPT !.lapStartTime = time]
    ELSE LET duration == Max(0, time - t.lapStartTime)
             nextTimes == Append(t.lapTimes, duration)
         IN  [t EXCEPT !.lastLapMs = Some(duration),
                       !.bestLapMs = Some(MinOf(nextTimes)),
                       !.lapTimes = nextTimes,
                       !.lapStartTime = time]

(***************************************************************************)
(* The frame callback of <Checkpoint>.  The three stores it writes travel  *)
(* together as a record s = [cp, ghost, time].                             *)
(***************************************************************************)
IsValidSequenceAny(props, last, total) == TRUE

IsValidSequence(props, last, total) ==
    \/ props.start /\ (last = 0 \/ last = total)
    \/ last = props.index - 1
    \/ props.index = 0 /\ last = total
    \/ props.index = 1 /\ last = total

ShouldIncrementLapEveryEntry(props, last, total) == props.end

ShouldIncrementLap(props, last, total) ==
    /\ props.end
    /\ last = total
    /\ last # props.index
    /\ ~(last = 0 /\ props.index = 0)

\* stopRecording, then loadRecording, stopPlayback and startPlayback if the
\* recording returned holds a position sample
FreezeAndReplay(g, time) ==
    LET rec == g.recording
        stopped == StopRecording(g)
    IN  IF rec # Null /\ Len(rec[1].positions) > 0
        THEN StartPlayback(StopPlayback(LoadRecording(stopped, rec[1])), time)
        ELSE stopped

\* the body of if (isValidSequence)
ValidEntry(s, props, time) ==
    LET last == s.cp.checkpoints.last
        total == s.cp.checkpoints.total
        counted ==
            IF ShouldIncrementLap(props, last, total)
            THEN [cp |-> SetCheckpoints(s.cp,
                            [laps |-> s.cp.checkpoints.laps + 1,
                             last |-> props.index]),
                  time |-> CompleteLap(s.time, time),
                  ghost |-> FreezeAndReplay(s.ghost, time)]
            ELSE [s EXCEPT !.cp = SetCheckpoints(@, [last |-> props.index])]
    IN  [counted EXCEPT !.cp = SetRespawn(@, props)]

ApplyEntryUnchecked(s, props, time) == ValidEntry(s, props, time)

\* the body of if (inside && !wasInside), up to setCpInside
ApplyEntry(s, props, time) ==
    IF IsValidSequence(props, s.cp.checkpoints.last, s.cp.checkpoints.total)
    THEN ValidEntry(s, props, time)
    ELSE s

ShouldEvaluateLevel(inside, wasInside) == inside

\* inside && !wasInside
ShouldEvaluate(inside, wasInside) == inside /\ ~wasInside

CheckpointCallback(s, props, inside, time) ==
    LET wasInside == WasInside(s.cp, props.index)
    IN  IF ShouldEvaluate(inside, wasInside)
        THEN [ApplyEntry(s, props, time) EXCEPT
                 !.cp = SetCpInside(@, props.index, TRUE)]
        ELSE IF ~inside /\ wasInside
        THEN [s EXCEPT !.cp = SetCpInside(@, props.index, FALSE)]
        ELSE s

(***************************************************************************)
(* The physics engine seen from the callbacks.  The box of the vehicle     *)
(* overlaps no sensor, one sensor, or two sensors that follow one another  *)
(* on the track; the vehicle is at the spawn point while it overlaps none  *)
(* and at the centre of the lowest sensor it overlaps otherwise.           *)
(***************************************************************************)
Contacts(total) ==
    {{}} \cup {{i} : i \in 0..total}
         \cup {{i, (i + 1) % (total + 1)} : i \in 0..total}

PositionAt(contact) ==
    IF contact = {} THEN SpawnPoint
    ELSE Center(CHOOSE i \in contact : \A j \in contact : i <= j)

\* no render tick is in progress
Idle == -1

NewPhysics ==
    [player |-> FALSE, contact |-> {}, position |-> SpawnPoint]

\* no kart is stepped
NewKart ==
    [state |-> Null, before |-> Null, input |-> Null, p |-> Null, dt |-> 0,
     calls |-> 0]

\* the Player component after its mount: playerStateRef and useState(false).
\* loop tells the build: "fixed" is the Player with the fixed time step,
\* "frame" the Player of usePlayerMovementLoop
NewPlayer ==
    [loop |-> "frame",
     driveSpeedCurrent |-> 0,
     onGround |-> FALSE,       \* player.onGround of the physics object
     contact |-> FALSE,        \* hasContact("player", a non-sensor obstacle)
     isJumping |-> FALSE,
     impulses |-> 0,           \* history: jump impulses injected since a
                               \*   ground callback last cleared isJumping
     tick |-> Null]            \* history: what the latest movement tick read

\* engineRef.current is null, no timer has fired, no object exists
NewEngine ==
    [ready |-> FALSE, fired |-> {}, objects |-> {}, running |-> {},
     armed |-> {}]             \* the nested timers that are pending

\* useCarStore: savePointId 0; lapTime is the clock reading of the creation
InitialCarStore ==
    [savePointId |-> 0, lapTime |-> 0]

\* nothing has been called, exported or drawn
NewUi ==
    [op |-> "none", arg |-> Null, text |-> Null, threw |-> FALSE,
     ghost |-> Null, calls |-> 0]

NewHist ==
    [entries |-> <<>>,        \* sensors newly entered, in order
     exclusive |-> TRUE,      \* each was entered while overlapping no other
     validSince |-> <<>>,     \* indices registered since the last lap
     dwell |-> {},            \* sensors seen overlapped by their callback
                              \*   and not left since
     evt |-> [index |-> Idle, inside |-> FALSE, dwelling |-> FALSE,
              lapInc |-> FALSE],   \* the latest checkpoint callback
     lapSamples |-> <<>>,     \* clock and position at the recorder callbacks
                              \*   of the lap under way
     prevLapSamples |-> <<>>] \* the same of the lap completed last

(***************************************************************************)
(* Handlers.                                                               *)
(***************************************************************************)
\* time passes; the live set carries over to the clock readings passed
Tick ==
    \E d \in scope.deltas :
        /\ now + d <= scope.horizon
        /\ now' = now + d
        /\ liveAt' = [t \in 0..scope.horizon |->
                         IF t > now /\ t <= now + d
                         THEN GetCurrentInputs(inputQueue) ELSE liveAt[t]]
        /\ lastOp' = "tick"
        /\ UNCHANGED <<inputQueue, lastPressed, scope, kart, player, engine,
                       carStore, run, raceVars>>

KeyEvent(action, pressed) ==
    /\ inputQueue.frameCounter < scope.events
    /\ inputQueue' = AddInput(inputQueue, action, pressed, now)
    /\ lastPressed' = [lastPressed EXCEPT ![action] =
                          IF pressed THEN "press" ELSE "release"]
    /\ liveAt' = [liveAt EXCEPT ![now] = GetCurrentInputs(inputQueue')]
    /\ ghostStore' = RecordInput(ghostStore, KeyCode[action], pressed, now)
    /\ UNCHANGED <<now, scope, kart, player, engine, carStore, run,
                   checkPointStore, timeStore, physics, frame, hist, ui>>

\* handleKeyDown for a mapped key
HandleKeyDown ==
    \E a \in scope.keys : KeyEvent(a, TRUE) /\ lastOp' = "keydown"

\* handleKeyUp for a mapped key
HandleKeyUp ==
    \E a \in scope.keys : KeyEvent(a, FALSE) /\ lastOp' = "keyup"

\* handleKeyDown for KeyR: resetPlayer
ResetPlayer ==
    /\ inputQueue' = ResetInputQueue(inputQueue, now)
    /\ run' = [run EXCEPT ![1] = ResetRun(run[1])]
    /\ lastPressed' = [a \in InputAction |->
                          IF a \in GetCurrentInputs(inputQueue) THEN "press"
                          ELSE lastPressed[a]]
    /\ liveAt' = [liveAt EXCEPT ![now] = GetCurrentInputs(inputQueue')]
    /\ lastOp' = "reset"
    /\ UNCHANGED <<now, scope, kart, player, engine, carStore, raceVars>>

\* one render tick of run r
Frame(r) ==
    /\ now > run[r].lastFrameTime
    /\ run' = [run EXCEPT ![r] = FrameCallback(run[r], inputQueue, now)]
    /\ lastOp' = "frame"
    /\ UNCHANGED <<now, inputQueue, lastPressed, liveAt, scope, kart, player,
                   engine, carStore, raceVars>>

\* the timers of usePlayerInitialization: the player object is created and,
\* no checkpoint having been registered, reset; the session clock, the lap
\* clock and the ghost recording start
PlayerInit ==
    /\ ~physics.player
    /\ now >= 1
    /\ physics' = [physics EXCEPT !.player = TRUE]
    /\ IF checkPointStore.checkpoints.last = 0
       THEN /\ inputQueue' = ResetInputQueue(inputQueue, now)
            /\ run' = [run EXCEPT ![1] = ResetRun(run[1])]
            /\ lastPressed' =
                   [a \in InputAction |->
                       IF a \in GetCurrentInputs(inputQueue) THEN "press"
                       ELSE lastPressed[a]]
            /\ liveAt' = [liveAt EXCEPT ![now] = GetCurrentInputs(inputQueue')]
            /\ timeStore' = StartLap(SetStartTime(timeStore, now), now)
            /\ ghostStore' = StartRecording(ghostStore, now)
       ELSE UNCHANGED <<inputQueue, run, lastPressed, liveAt, timeStore,
                        ghostStore>>
    /\ lastOp' = "init"
    /\ UNCHANGED <<now, scope, kart, player, engine, carStore,
                   checkPointStore, frame, hist, ui>>

\* a render tick starts: the physics engine steps and the overlaps and the
\* position the callbacks of this tick will read are fixed.  Before the
\* player object exists the callbacks return at once.
BeginFrame ==
    /\ physics.player
    /\ frame.next = Idle
    /\ now > frame.lastFrameTime
    /\ \E c \in Contacts(checkPointStore.checkpoints.total) :
           /\ physics' = [physics EXCEPT !.contact = c,
                                         !.position = PositionAt(c)]
           /\ hist' = [hist EXCEPT !.dwell = @ \cap c]
    /\ frame' = [next |-> 0, lastFrameTime |-> now]
    /\ lastOp' = "physics"
    /\ UNCHANGED <<now, inputQueue, lastPressed, liveAt, scope, kart, player,
                   engine, carStore, run, checkPointStore, ghostStore,
                   timeStore, ui>>

\* the frame callback of the checkpoint whose turn it is
CheckpointFrame ==
    /\ frame.next \in 0..checkPointStore.checkpoints.total
    /\ LET index == frame.next
           props == CheckpointProps(index)
           inside == index \in physics.contact
           before == [cp |-> checkPointStore, ghost |-> ghostStore,
                      time |-> timeStore]
           after == CheckpointCallback(before, props, inside, now)
           entered == inside /\ index \notin hist.dwell
           lapInc == after.cp.checkpoints.laps # before.cp.checkpoints.laps
           registered ==
               /\ ShouldEvaluate(inside, WasInside(before.cp, index))
               /\ IsValidSequence(props, before.cp.checkpoints.last,
                                  before.cp.checkpoints.total)
       IN  /\ checkPointStore' = after.cp
           /\ ghostStore' = after.ghost
           /\ timeStore' = after.time
           /\ frame' = [frame EXCEPT !.next = index + 1]
           /\ hist' =
                [entries |-> IF entered THEN Append(hist.entries, index)
                             ELSE hist.entries,
                 exclusive |-> IF entered
                               THEN hist.exclusive /\ physics.contact = {index}
                               ELSE hist.exclusive,
                 validSince |-> IF lapInc THEN <<>>
                                ELSE IF registered
                                THEN Append(hist.validSince, index)
                                ELSE hist.validSince,
                 dwell |-> IF inside THEN hist.dwell \cup {index}
                           ELSE hist.dwell,
                 evt |-> [index |-> index, inside |-> inside,
                          dwelling |-> index \in hist.dwell,
                          lapInc |-> lapInc],
                 lapSamples |-> IF lapInc THEN <<>> ELSE hist.lapSamples,
                 prevLapSamples |-> IF lapInc THEN hist.lapSamples
                                    ELSE hist.prevLapSamples]
    /\ lastOp' = "checkpoint"
    /\ UNCHANGED <<now, inputQueue, lastPressed, liveAt, scope, kart, player,
                   engine, carStore, run, physics, ui>>

\* the frame callback of useGhostRecorder; it runs after the checkpoints',
\* the player being mounted after them
GhostRecorderFrame ==
    /\ frame.next = checkPointStore.checkpoints.total + 1
    /\ ghostStore' = RecordPosition(ghostStore, physics.position, now)
    /\ frame' = [frame EXCEPT !.next = Idle]
    /\ hist' = [hist EXCEPT !.lapSamples =
                   Append(@, [clock |-> now, position |-> physics.position])]
    /\ lastOp' = "recorder"
    /\ UNCHANGED <<now, inputQueue, lastPressed, liveAt, scope, kart, player,
                   engine, carStore, run, checkPointStore, timeStore, physics,
                   ui>>

(***************************************************************************)
(* Specification of the input queue: the clock, the key handlers and the   *)
(* manual reset.                                                           *)
(***************************************************************************)
InitCommon ==
    /\ now = 0
    /\ inputQueue = NewInputQueue
    /\ lastPressed = [a \in InputAction |-> "none"]
    /\ liveAt = [t \in 0..scope.horizon |-> {}]
    /\ lastOp = "init"
    /\ run = [r \in Runs |-> NewRun]
    /\ checkPointStore = InitialCheckPointStore
    /\ ghostStore = InitialGhostStore
    /\ timeStore = InitialTimeStore
    /\ physics = NewPhysics
    /\ frame = [next |-> Idle, lastFrameTime |-> 0]
    /\ hist = NewHist
    /\ ui = NewUi
    /\ kart = NewKart
    /\ player = NewPlayer
    /\ engine = NewEngine
    /\ carStore = InitialCarStore

InitInput ==
    /\ scope = [horizon |-> MaxTime, deltas |-> {1},
                events |-> MaxFrameCounter, keys |-> Keys,
                ops |-> 0]
    /\ InitCommon

NextInput == Tick \/ HandleKeyDown \/ HandleKeyUp \/ ResetPlayer

SpecInput == InitInput /\ [][NextInput]_vars

(***************************************************************************)
(* Specification of the movement loop: two runs receive the same key       *)
(* events at the same clock readings and render at frame times of their    *)
(* own.                                                                    *)
(***************************************************************************)
InitLoop ==
    /\ scope = [horizon |-> LoopHorizon, deltas |-> {1},
                events |-> LoopEvents, keys |-> Keys,
                ops |-> 0]
    /\ InitCommon

NextLoop == Tick \/ HandleKeyDown \/ HandleKeyUp \/ Frame(1) \/ Frame(2)

SpecLoop == InitLoop /\ [][NextLoop]_vars

(***************************************************************************)
(* Specification of frame-time spikes: one run, short and long frame       *)
(* deltas, key events and the manual reset.                                *)
(***************************************************************************)
InitSpike ==
    /\ scope = [horizon |-> SpikeHorizon, deltas |-> {ShortDelta, SpikeDelta},
                events |-> SpikeEvents, keys |-> Keys,
                ops |-> 0]
    /\ InitCommon

NextSpike == Tick \/ HandleKeyDown \/ HandleKeyUp \/ ResetPlayer \/ Frame(1)

SpecSpike == InitSpike /\ [][NextSpike]_vars

(***************************************************************************)
(* Specification of the race: the checkpoints 0 .. total are mounted, the  *)
(* player initialises, and every render tick runs the physics step, the    *)
(* checkpoint callbacks in scene order and the ghost recorder.             *)
(***************************************************************************)
InitCheckpoint ==
    /\ scope = [horizon |-> RaceHorizon, deltas |-> {1},
                events |-> 0, keys |-> {},
                ops |-> 0]
    /\ now = 0
    /\ inputQueue = NewInputQueue
    /\ lastPressed = [a \in InputAction |-> "none"]
    /\ liveAt = [t \in 0..scope.horizon |-> {}]
    /\ lastOp = "mount"
    /\ run = [r \in Runs |-> NewRun]
    /\ \E total \in 1..MaxTotal :
           checkPointStore = MountCheckpoints(InitialCheckPointStore, 0, total)
    /\ ghostStore = InitialGhostStore
    /\ timeStore = InitialTimeStore
    /\ physics = NewPhysics
    /\ frame = [next |-> Idle, lastFrameTime |-> 0]
    /\ hist = NewHist
    /\ ui = NewUi
    /\ kart = NewKart
    /\ player = NewPlayer
    /\ engine = NewEngine
    /\ carStore = InitialCarStore

\* the clock advances between render ticks; once the player exists a render
\* tick runs at every clock reading
ClockStep ==
    /\ frame.next = Idle
    /\ physics.player => frame.lastFrameTime = now
    /\ Tick

NextCheckpoint ==
    \/ ClockStep
    \/ PlayerInit
    \/ BeginFrame
    \/ CheckpointFrame
    \/ GhostRecorderFrame

SpecCheckpoint == InitCheckpoint /\ [][NextCheckpoint]_vars

(***************************************************************************)
(* Specification of the queue: a caller drives one InputQueue through its  *)
(* methods.  The clock addInput reads may return any reading, so events    *)
(* arrive in any order of timestamps.                                      *)
(***************************************************************************)
AddInputCall ==
    \E action \in scope.keys, pressed \in BOOLEAN, time \in 0..scope.horizon :
        /\ ui.calls < scope.events
        /\ inputQueue' = AddInput(inputQueue, action, pressed, time)
        /\ lastPressed' = [lastPressed EXCEPT ![action] =
                              IF pressed THEN "press" ELSE "release"]
        /\ ui' = [ui EXCEPT !.op = "addInput", !.calls = @ + 1,
                            !.arg = Some([action |-> action,
                                          pressed |-> pressed,
                                          timestamp |-> time,
                                          frame |-> inputQueue.frameCounter])]
        /\ lastOp' = "addInput"
        /\ UNCHANGED <<now, liveAt, scope, kart, player, engine, carStore,
                       run, checkPointStore, ghostStore, timeStore, physics,
                       frame, hist>>

ClearCall ==
    /\ ui.calls < scope.events
    /\ inputQueue' = Clear(inputQueue)
    /\ ui' = [ui EXCEPT !.op = "clear", !.calls = @ + 1, !.arg = Null]
    /\ lastOp' = "clear"
    /\ UNCHANGED <<now, lastPressed, liveAt, scope, kart, player, engine,
                   carStore, run, checkPointStore, ghostStore, timeStore,
                   physics, frame, hist>>

SetGameStartTimeCall ==
    \E time \in 0..scope.horizon :
        /\ ui.calls < scope.events
        /\ inputQueue' = SetGameStartTime(inputQueue, time)
        /\ ui' = [ui EXCEPT !.op = "setGameStartTime", !.calls = @ + 1, !.arg = Some(time)]
        /\ lastOp' = "setGameStartTime"
        /\ UNCHANGED <<now, lastPressed, liveAt, scope, kart, player, engine,
                       carStore, run, checkPointStore, ghostStore, timeStore,
                       physics, frame, hist>>

ConsumeCall ==
    \E time \in 0..scope.horizon :
        LET result == ConsumeInputsUntil(inputQueue, time)
        IN  /\ ui.calls < scope.events
            /\ inputQueue' = [inputQueue EXCEPT !.queue = result.remaining]
            /\ ui' = [ui EXCEPT !.op = "consumeInputsUntil", !.calls = @ + 1,
                                !.arg = Some(result.processed)]
            /\ lastOp' = "consumeInputsUntil"
            /\ UNCHANGED <<now, lastPressed, liveAt, scope, kart, player,
                           engine, carStore, run, checkPointStore, ghostStore,
                           timeStore, physics, frame, hist>>

\* serialize, and deserialize of the string on a fresh queue, which arg holds
RoundTripCall ==
    /\ ui.calls < scope.events
    /\ ui' = [ui EXCEPT
                 !.op = "deserialize",
                 !.calls = @ + 1,
                 !.text = Some(Serialize(inputQueue)),
                 !.arg = Some(Deserialize(NewInputQueue,
                                          Serialize(inputQueue)))]
    /\ lastOp' = "deserialize"
    /\ UNCHANGED <<now, inputQueue, lastPressed, liveAt, scope, kart, player,
                   engine, carStore, run, checkPointStore, ghostStore,
                   timeStore, physics, frame, hist>>

InitQueue ==
    /\ scope = [horizon |-> QueueMaxTime, deltas |-> {},
                events |-> QueueCalls, keys |-> {"forward"},
                ops |-> 0]
    /\ InitCommon

NextQueue ==
    \/ AddInputCall
    \/ ClearCall
    \/ SetGameStartTimeCall
    \/ ConsumeCall
    \/ RoundTripCall

SpecQueue == InitQueue /\ [][NextQueue]_vars

(***************************************************************************)
(* The panel's controls.  A handler runs between two render ticks.  op is  *)
(* the store method called last, threw whether that call threw, text the   *)
(* text exportJson returned or importJson was handed last, ghost the       *)
(* recording exportJson serialized last, arg the clock reading of the last *)
(* pause.                                                                  *)
(***************************************************************************)
Called(op, threw) ==
    [ui EXCEPT !.op = op, !.threw = threw, !.calls = @ + 1]

PanelCall ==
    /\ frame.next = Idle
    /\ ui.calls < scope.ops
    /\ UNCHANGED <<now, inputQueue, lastPressed, liveAt, lastOp, scope, kart,
                   player, engine, carStore, run, checkPointStore, timeStore,
                   physics, frame, hist>>

Play ==
    /\ ~ghostStore.isPlaying /\ ~ghostStore.isPaused
    /\ PanelCall
    /\ ghostStore' = StartPlayback(ghostStore, now)
    /\ ui' = Called("startPlayback", PositionsUndefined(ghostStore))

Pause ==
    /\ ghostStore.isPlaying
    /\ PanelCall
    /\ ghostStore' = PausePlayback(ghostStore, now)
    /\ ui' = [Called("pausePlayback", FALSE) EXCEPT !.arg = Some(now)]

Resume ==
    /\ ghostStore.isPaused
    /\ PanelCall
    /\ ghostStore' = ResumePlayback(ghostStore, now)
    /\ ui' = Called("resumePlayback", FALSE)

Stop ==
    /\ PanelCall
    /\ ghostStore' = StopPlayback(ghostStore)
    /\ ui' = Called("stopPlayback", FALSE)

Seek ==
    \E ms \in 0..scope.horizon :
        /\ PanelCall
        /\ ghostStore' = SeekTo(ghostStore, ms, now)
        /\ ui' = Called("seekTo", PositionsUndefined(ghostStore))

\* handleExport: the file holds the text exportJson returned
Export ==
    /\ PanelCall
    /\ ui' = [Called("exportJson", FALSE) EXCEPT
                 !.text = ExportJson(ghostStore),
                 !.ghost = IF ghostStore.lastRecording # Null
                           THEN ghostStore.lastRecording
                           ELSE ghostStore.recording]
    /\ UNCHANGED ghostStore

\* the files the user may pick: the one exported last, a text that is no
\* JSON, and JSON texts that are no recording
ImportTexts ==
    {NotJson, JNull, JObject(<<>>),
     JObject(<<JMember("meta", MetaToJson([version |-> 1, createdAt |-> 0]))>>)}
    \cup (IF ui.ghost = Null THEN {} ELSE {RecordingToJson(ui.ghost[1])})

\* handleImportChange
Import ==
    \E text \in ImportTexts :
        /\ PanelCall
        /\ ghostStore' = ImportJson(ghostStore, text)
        /\ ui' = [Called("importJson", FALSE) EXCEPT !.text = Some(text)]

(***************************************************************************)
(* Specification of the ghost: a track of two checkpoints, the player, the *)
(* reset key, the render ticks and the buttons of the panel.               *)
(***************************************************************************)
\* the reset key, pressed between two render ticks
ResetKey ==
    /\ frame.next = Idle
    /\ ResetPlayer

InitGhost ==
    /\ scope = [horizon |-> GhostHorizon, deltas |-> {1},
                events |-> 0, keys |-> {},
                ops |-> GhostOps]
    /\ now = 0
    /\ inputQueue = NewInputQueue
    /\ lastPressed = [a \in InputAction |-> "none"]
    /\ liveAt = [t \in 0..scope.horizon |-> {}]
    /\ lastOp = "mount"
    /\ run = [r \in Runs |-> NewRun]
    /\ checkPointStore = MountCheckpoints(InitialCheckPointStore, 0, 1)
    /\ ghostStore = InitialGhostStore
    /\ timeStore = InitialTimeStore
    /\ physics = NewPhysics
    /\ frame = [next |-> Idle, lastFrameTime |-> 0]
    /\ hist = NewHist
    /\ ui = NewUi
    /\ kart = NewKart
    /\ player = NewPlayer
    /\ engine = NewEngine
    /\ carStore = InitialCarStore

NextGhost ==
    \/ ClockStep
    \/ PlayerInit
    \/ BeginFrame
    \/ CheckpointFrame
    \/ GhostRecorderFrame
    \/ ResetKey
    \/ Play
    \/ Pause
    \/ Resume
    \/ Stop
    \/ Seek

SpecGhost == InitGhost /\ [][NextGhost]_vars

(***************************************************************************)
(* Properties of the input queue (SpecInput).                              *)
(***************************************************************************)
EventsOf(action) ==
    {i \in 1..Len(inputQueue.queue) : inputQueue.queue[i].action = action}

\* C1: after any sequence of addInput calls, eviction included,
\* getCurrentInputs() is exactly the set of actions whose most recent
\* addInput call had pressed = true.
C1_LiveSetIsLatestPressed ==
    GetCurrentInputs(inputQueue) =
        {a \in InputAction : lastPressed[a] = "press"}

\* a held action whose press event has been evicted from a full log
C1_Witness ==
    /\ Len(inputQueue.queue) = QueueCap
    /\ inputQueue.frameCounter > QueueCap
    /\ \E a \in GetCurrentInputs(inputQueue) : EventsOf(a) = {}

\* C2: for every clock reading t of the session, getActiveInputsAt(t),
\* rebuilt from the log alone, is the live active set that existed at t.
C2_ReplayFidelity ==
    \A t \in 0..now :
        t >= inputQueue.gameStartTime =>
            GetActiveInputsAt(inputQueue, t - inputQueue.gameStartTime)
                = liveAt[t]

\* C10: resetPlayer re-seeds the session start and empties the log of the
\* earlier events, the live set is the same after the reset as before it,
\* and the log then holds exactly one press event per held action.
C10_ResetKeepsHeldKeys ==
    [][lastOp' = "reset" =>
          /\ GetCurrentInputs(inputQueue') = GetCurrentInputs(inputQueue)
          /\ inputQueue'.gameStartTime = now
          /\ Len(inputQueue'.queue) =
                 Cardinality(GetCurrentInputs(inputQueue))
          /\ \A a \in GetCurrentInputs(inputQueue) :
                 \E i \in 1..Len(inputQueue'.queue) :
                     /\ inputQueue'.queue[i].action = a
                     /\ inputQueue'.queue[i].pressed
                     /\ inputQueue'.queue[i].timestamp = now]_vars

\* a reset made with two keys held, later than the events that pressed them
C10_Witness ==
    /\ lastOp = "reset"
    /\ now >= 1
    /\ inputQueue.gameStartTime = now
    /\ Cardinality(GetCurrentInputs(inputQueue)) = 2
    /\ Len(inputQueue.queue) = 2

(***************************************************************************)
(* Properties of the movement loop (SpecLoop, SpecSpike).                  *)
(***************************************************************************)
\* C3: two runs that got the same key events and have rendered up to the
\* same clock reading, with the elapsed time split into different frame
\* deltas, have executed the same substeps (game times and active inputs)
\* and hold the same vehicle state.  Key events that share a clock reading
\* with a frame are left out, so that both runs saw every event before or
\* after the same frames.
C3_FrameSplitIndependent ==
    (/\ run[1].lastFrameTime = now
     /\ run[2].lastFrameTime = now
     /\ \A i \in 1..Len(inputQueue.queue) :
            inputQueue.queue[i].timestamp
                \notin (run[1].frameTimes \cup run[2].frameTimes))
    => /\ run[1].substepLog = run[2].substepLog
       /\ run[1].rotation = run[2].rotation
       /\ run[1].angularVelocity = run[2].angularVelocity
       /\ run[1].gameTime = run[2].gameTime

\* C4: a tick executes at most maxSteps substeps, and the frame deltas
\* added since the last reset equal the game time advanced plus what is
\* left in the accumulator.
C4_CapAndConservation ==
    /\ run[1].stepsProcessed <= MaxSteps
    /\ run[1].sumDelta = run[1].gameTime + run[1].accumulatedTime

\* a frame that hit the cap and carries more than one step to the next tick
C4_Witness ==
    /\ lastOp = "frame"
    /\ run[1].stepsProcessed = MaxSteps
    /\ run[1].accumulatedTime >= FixedTimeStep

(***************************************************************************)
(* Properties of the checkpoints and of the ghost (SpecCheckpoint).        *)
(***************************************************************************)
\* the lap 0, 1, ..., total, 0 as a sequence of sensor indices
LapOrder(total) ==
    [k \in 1..(total + 2) |-> IF k = total + 2 THEN 0 ELSE k - 1]

\* the validity rule for an entry into sensor index while `last` checkpoints
\* are registered: the next index, or the start checkpoint at the beginning
\* or at the end of a lap, or the wrap-around to index 0 or 1
ValidByRule(index, last, total) ==
    \/ index = last + 1
    \/ CheckpointProps(index).start /\ (last = 0 \/ last = total)
    \/ last = total /\ index \in {0, 1}

\* the callback about to run sees its sensor newly overlapped
NewlyEntering ==
    /\ frame.next \in 0..checkPointStore.checkpoints.total
    /\ frame.next \in physics.contact
    /\ ~WasInside(checkPointStore, frame.next)

\* C5: on a track 0..total with checkpoint 0 as start and end, entering
\* the sensors in the order 0, 1, ..., total, 0, each left before the next
\* is entered, gives laps = 1 from the second entry into 0 on, and laps = 0
\* at every earlier point of that traversal.
C5_OneLapAfterFullTraversal ==
    LET total == checkPointStore.checkpoints.total
        n == Len(hist.entries)
    IN  hist.exclusive =>
          /\ hist.entries = LapOrder(total) =>
                checkPointStore.checkpoints.laps = 1
          /\ (n < total + 2 /\ hist.entries = SubSeq(LapOrder(total), 1, n)) =>
                checkPointStore.checkpoints.laps = 0

C5_Witness ==
    /\ checkPointStore.checkpoints.total = 2
    /\ hist.exclusive
    /\ hist.entries = <<0, 1, 2, 0>>
    /\ checkPointStore.checkpoints.laps = 1
    /\ lastOp = "checkpoint"

\* C6: last changes only in a callback that sees its sensor newly entered
\* by a transition the validity rule admits, and then becomes that index;
\* laps never decreases; laps changes only by +1, in an entry into the end
\* checkpoint made while last equals total, the indices registered since
\* the previous lap increment ending with 1, 2, ..., total.
C6_LastAndLapsAdvanceByRule ==
    [][LET cp == checkPointStore.checkpoints
           total == cp.total
           since == hist.validSince
       IN  /\ checkPointStore'.checkpoints.last # cp.last =>
                 /\ NewlyEntering
                 /\ ValidByRule(frame.next, cp.last, total)
                 /\ checkPointStore'.checkpoints.last = frame.next
           /\ checkPointStore'.checkpoints.laps >= cp.laps
           /\ checkPointStore'.checkpoints.laps # cp.laps =>
                 /\ checkPointStore'.checkpoints.laps = cp.laps + 1
                 /\ NewlyEntering
                 /\ CheckpointProps(frame.next).end
                 /\ cp.last = total
                 /\ Len(since) >= total
                 /\ SubSeq(since, Len(since) - total + 1, Len(since))
                      = [k \in 1..total |-> k]]_vars

C6_Witness ==
    /\ lastOp = "checkpoint"
    /\ hist.evt.lapInc
    /\ checkPointStore.checkpoints.laps = 2

\* C7: an entry into a sensor for which no condition of the validity rule
\* holds leaves last, laps, the respawn position, yaw and roll and the
\* start index as they were.
C7_InvalidEntryIgnored ==
    [][(/\ NewlyEntering
        /\ ~ValidByRule(frame.next, checkPointStore.checkpoints.last,
                        checkPointStore.checkpoints.total))
       => /\ checkPointStore'.checkpoints = checkPointStore.checkpoints
          /\ checkPointStore'.respawnPosition = checkPointStore.respawnPosition
          /\ checkPointStore'.respawnRotation = checkPointStore.respawnRotation
          /\ checkPointStore'.respawnRoll = checkPointStore.respawnRoll
          /\ checkPointStore'.startIndex = checkPointStore.startIndex]_vars

C7_Witness ==
    /\ lastOp = "checkpoint"
    /\ hist.entries = <<0, 2>>
    /\ hist.evt.index = 2
    /\ hist.evt.inside /\ ~hist.evt.dwelling
    /\ checkPointStore.checkpoints.last = 0
    /\ WasInside(checkPointStore, 2)

\* C8: last and laps change only in a callback whose sensor is overlapped
\* while its stored was-inside flag is false; and the callback of a sensor
\* the vehicle has stayed inside since an earlier callback of it changes
\* neither.
C8_EdgeTriggered ==
    [][/\ (\/ checkPointStore'.checkpoints.last
                # checkPointStore.checkpoints.last
           \/ checkPointStore'.checkpoints.laps
                # checkPointStore.checkpoints.laps) => NewlyEntering
       /\ (/\ frame.next \in 0..checkPointStore.checkpoints.total
           /\ frame.next \in hist.dwell) =>
              /\ checkPointStore'.checkpoints.last
                   = checkPointStore.checkpoints.last
              /\ checkPointStore'.checkpoints.laps
                   = checkPointStore.checkpoints.laps]_vars

\* the vehicle stayed inside sensor 2 while checkpoint 1 was registered: the
\* callback of 2 then ran with the rule satisfied and the flag set
C8_Witness ==
    /\ lastOp = "checkpoint"
    /\ hist.evt.index = 2
    /\ hist.evt.inside /\ hist.evt.dwelling
    /\ checkPointStore.checkpoints.last = 1

\* C9: right after every lap completion the playback recording holds the
\* position samples of the lap just completed, recording is off, playback
\* is on and its playhead is 0.
C9_GhostShowsLapJustCompleted ==
    (lastOp = "checkpoint" /\ hist.evt.lapInc) =>
        /\ ~ghostStore.isRecording
        /\ ghostStore.isPlaying
        /\ GetPlayhead(ghostStore, now) = 0
        /\ ghostStore.lastRecording # Null
        /\ [k \in 1..Len(ghostStore.lastRecording[1].positions) |->
               [clock |-> ghostStore.sessionStartTime
                            + ghostStore.lastRecording[1].positions[k].t,
                position |-> ghostStore.lastRecording[1].positions[k].position]]
             = hist.prevLapSamples

\* the first lap completion, where the recording started by the player
\* initialisation is the one loaded
C9_FirstLapWitness ==
    /\ lastOp = "checkpoint" /\ hist.evt.lapInc
    /\ checkPointStore.checkpoints.laps = 1
    /\ ghostStore.isPlaying
    /\ Len(hist.prevLapSamples) >= 2

(***************************************************************************)
(* Properties of the ghost store and of the panel (SpecGhost).             *)
(***************************************************************************)
\* C11: when a reset of the initialised player, started by the reset key,
\* returns, the ghost store is recording into a fresh recording without
\* samples whose session start is the time of the reset.
C11_ResetRestartsRecording ==
    [][(physics.player /\ lastOp' = "reset") =>
          /\ ghostStore'.isRecording
          /\ ghostStore'.sessionStartTime = now
          /\ ghostStore'.recording # Null
          /\ ghostStore'.recording[1].positions = <<>>
          /\ ghostStore'.recording[1].inputs = <<>>]_vars

(***************************************************************************)
(* Specification of the panel: the track of two checkpoints, the player,   *)
(* the recorder, one key, and the export, import, play and seek controls.  *)
(***************************************************************************)
PanelKey ==
    /\ frame.next = Idle
    /\ physics.player
    /\ (HandleKeyDown \/ HandleKeyUp)

InitPanel ==
    /\ scope = [horizon |-> PanelHorizon, deltas |-> {1},
                events |-> PanelKeys, keys |-> {"forward"},
                ops |-> MaxPanelOps]
    /\ now = 0
    /\ inputQueue = NewInputQueue
    /\ lastPressed = [a \in InputAction |-> "none"]
    /\ liveAt = [t \in 0..scope.horizon |-> {}]
    /\ lastOp = "mount"
    /\ run = [r \in Runs |-> NewRun]
    /\ checkPointStore = MountCheckpoints(InitialCheckPointStore, 0, 1)
    /\ ghostStore = InitialGhostStore
    /\ timeStore = InitialTimeStore
    /\ physics = NewPhysics
    /\ frame = [next |-> Idle, lastFrameTime |-> 0]
    /\ hist = NewHist
    /\ ui = NewUi
    /\ kart = NewKart
    /\ player = NewPlayer
    /\ engine = NewEngine
    /\ carStore = InitialCarStore

NextPanel ==
    \/ ClockStep
    \/ PlayerInit
    \/ BeginFrame
    \/ CheckpointFrame
    \/ GhostRecorderFrame
    \/ PanelKey
    \/ Play
    \/ Seek
    \/ Export
    \/ Import

SpecPanel == InitPanel /\ [][NextPanel]_vars

(***************************************************************************)
(* Ghost: the frame callback that places the ghost's mesh.  A position is   *)
(* kept exact, as three numerators over one denominator.                   *)
(***************************************************************************)
\* lastRecording?.positions ?? []
GhostPositions(g) ==
    IF g.lastRecording = Null THEN <<>>
    ELSE IF PositionsOf(g.lastRecording[1]) = Null THEN <<>>
    ELSE g.lastRecording[1].positions

GhostScanStuck(positions, i, elapsed) == i

\* the linear scan for the segment; indices count from 1
RECURSIVE GhostScan(_, _, _)
GhostScan(positions, i, elapsed) ==
    IF i + 1 <= Len(positions) /\ positions[i + 1].t <= elapsed
    THEN GhostScan(positions, i + 1, elapsed)
    ELSE i

\* the position the callback sets for a recording with samples
GhostFramePosition(positions, elapsed) ==
    LET i == GhostScan(positions, 1, elapsed)
        a == positions[i]
        b == positions[Min(i + 1, Len(positions))]
    IN  IF b.t = a.t THEN [num |-> a.position, den |-> 1]
        ELSE LET den == b.t - a.t
                 \* f = num / den, clamped to [0, 1]
                 num == Max(0, Min(den, elapsed - a.t))
             IN  [num |-> [k \in 1..3 |->
                              a.position[k] * den
                                + (b.position[k] - a.position[k]) * num],
                  den |-> den]

\* the frame callback of Ghost: ghost is the position of the mesh
GhostFrame ==
    /\ ui.op # "useFrame"
    /\ LET positions == GhostPositions(ghostStore)
           elapsed == GetPlayhead(ghostStore, now)
       IN  ui' = [ui EXCEPT
                    !.op = "useFrame",
                    !.ghost = IF Len(positions) = 0 THEN ui.ghost
                              ELSE Some(GhostFramePosition(positions,
                                                           elapsed))]
    /\ UNCHANGED <<now, inputQueue, lastPressed, liveAt, lastOp, scope, kart,
                   player, engine, carStore, run, checkPointStore, ghostStore,
                   timeStore, physics, frame, hist>>

\* the example of the specification: two samples, 100 ms apart
ExampleSamples ==
    <<[t |-> 0, position |-> <<0, 0, 0>>],
      [t |-> 100, position |-> <<10, 0, 0>>]>>

SamplePoints == {<<0, 0, 0>>, <<10, 0, 0>>, <<-3, 7, 2>>}

\* the recordings of at most InterpLen samples with non-decreasing times
SampleSeqs ==
    UNION {{q \in [1..n -> [t : 0..InterpMaxT, position : SamplePoints]] :
              \A i \in 1..n - 1 : q[i].t <= q[i + 1].t} : n \in 0..InterpLen}

\* a store that holds the samples as its playback recording, with the
\* playhead at elapsed
LoadedAt(positions, elapsed) ==
    [InitialGhostStore EXCEPT
        !.lastRecording = Some([meta |-> [version |-> 1, createdAt |-> 0],
                                inputs |-> <<>>, positions |-> positions]),
        !.playOffsetMs = elapsed]

InitInterp ==
    /\ scope = [horizon |-> InterpMaxT, deltas |-> {},
                events |-> 0, keys |-> {},
                ops |-> 0]
    /\ now = 0
    /\ inputQueue = NewInputQueue
    /\ lastPressed = [a \in InputAction |-> "none"]
    /\ liveAt = [t \in 0..scope.horizon |-> {}]
    /\ lastOp = "mount"
    /\ run = [r \in Runs |-> NewRun]
    /\ checkPointStore = InitialCheckPointStore
    /\ timeStore = InitialTimeStore
    /\ physics = NewPhysics
    /\ frame = [next |-> Idle, lastFrameTime |-> 0]
    /\ hist = NewHist
    /\ ui = NewUi
    /\ kart = NewKart
    /\ player = NewPlayer
    /\ engine = NewEngine
    /\ carStore = InitialCarStore
    /\ \/ \E positions \in SampleSeqs, elapsed \in 0..InterpMaxT + 1 :
              ghostStore = LoadedAt(positions, elapsed)
       \/ \E elapsed \in {0, 50, 100, 150} :
              ghostStore = LoadedAt(ExampleSamples, elapsed)

NextInterp == GhostFrame

SpecInterp == InitInterp /\ [][NextInterp]_vars

(***************************************************************************)
(* Properties of the queue specification.                                  *)
(***************************************************************************)
\* C12: after clear(), and likewise after setGameStartTime(time), the log is
\* empty, the active set is empty and the sequence counter is 0.
C12_ClearAndSetStartResetAll ==
    [][(lastOp' \in {"clear", "setGameStartTime"}) =>
          /\ inputQueue'.queue = <<>>
          /\ inputQueue'.currentInputs = <<>>
          /\ inputQueue'.frameCounter = 0]_vars

\* C12 (amended): clear() empties the log and the active set and keeps the
\* sequence counter and the session start; setGameStartTime(time) sets the
\* session start to time and the sequence counter to 0 and keeps the log and
\* the active set; after clear() followed by setGameStartTime(time) the log
\* and the active set are empty and the sequence counter is 0.
C12_ClearThenSetStartResetsAll ==
    [][/\ (lastOp' = "clear") =>
             /\ inputQueue'.queue = <<>>
             /\ inputQueue'.currentInputs = <<>>
             /\ inputQueue'.frameCounter = inputQueue.frameCounter
             /\ inputQueue'.gameStartTime = inputQueue.gameStartTime
       /\ (lastOp' = "setGameStartTime") =>
             /\ inputQueue'.gameStartTime = ui'.arg[1]
             /\ inputQueue'.frameCounter = 0
             /\ inputQueue'.queue = inputQueue.queue
             /\ inputQueue'.currentInputs = inputQueue.currentInputs
       /\ (lastOp = "clear" /\ lastOp' = "setGameStartTime") =>
             /\ inputQueue'.queue = <<>>
             /\ inputQueue'.currentInputs = <<>>
             /\ inputQueue'.frameCounter = 0]_vars

\* clear() has just emptied a queue whose sequence counter had advanced: the
\* counter is kept
C12_Witness ==
    /\ lastOp = "clear"
    /\ inputQueue.queue = <<>>
    /\ inputQueue.frameCounter >= 2

NonDecreasing(events) ==
    \A i \in 1..Len(events) - 1 :
        events[i].timestamp <= events[i + 1].timestamp

\* C13: whatever the order of the timestamps addInput was called with, the
\* log is in non-decreasing order of timestamp, and so is what
\* getInputsUntil and consumeInputsUntil return for every time.
C13_LogSortedByTimestamp ==
    /\ NonDecreasing(inputQueue.queue)
    /\ \A time \in 0..scope.horizon :
          /\ NonDecreasing(GetInputsUntil(inputQueue, time))
          /\ NonDecreasing(ConsumeInputsUntil(inputQueue, time).processed)
          /\ NonDecreasing(ConsumeInputsUntil(inputQueue, time).remaining)
    /\ (lastOp = "consumeInputsUntil") => NonDecreasing(ui.arg[1])

\* an event that arrived later (larger sequence number) with a smaller
\* timestamp stands earlier in the log
C13_Witness ==
    \E i \in 1..Len(inputQueue.queue), j \in 1..Len(inputQueue.queue) :
        /\ i < j
        /\ inputQueue.queue[i].timestamp < inputQueue.queue[j].timestamp
        /\ inputQueue.queue[i].frame > inputQueue.queue[j].frame

\* number of occurrences of an event in a log
Count(events, e) == Cardinality({i \in 1..Len(events) : events[i] = e})

\* C14: the log never holds more than QueueCap events; an addInput on a full
\* log drops exactly one event, one of smallest timestamp among the log and
\* the new event, and returns normally.
C14_OverflowDropsOldest ==
    [][/\ Len(inputQueue'.queue) <= QueueCap
       /\ (lastOp' = "addInput" /\ Len(inputQueue.queue) = QueueCap) =>
             LET before == Append(inputQueue.queue, ui'.arg[1])
                 after == inputQueue'.queue
             IN  /\ Len(after) = QueueCap
                 /\ \E d \in Range(before) :
                       /\ \A e \in Range(before) :
                             d.timestamp <= e.timestamp
                       /\ \A e \in Range(before) \cup Range(after) :
                             Count(after, e) =
                               Count(before, e) - (IF e = d THEN 1 ELSE 0)]_vars

\* addInput on a full log has returned with a full log that starts later
\* than the new event: the new event was the oldest and is the one dropped
C14_Witness ==
    /\ lastOp = "addInput"
    /\ Len(inputQueue.queue) = QueueCap
    /\ ui.arg[1].timestamp < inputQueue.queue[1].timestamp

\* C15: deserialize(serialize()) on a fresh queue yields the log, the
\* session start and the sequence counter of the serialized queue.
C15_SerializeRoundTrip ==
    (lastOp = "deserialize") =>
        /\ ui.arg[1].queue = inputQueue.queue
        /\ ui.arg[1].gameStartTime = inputQueue.gameStartTime
        /\ ui.arg[1].frameCounter = inputQueue.frameCounter

C15_Witness ==
    /\ lastOp = "deserialize"
    /\ Len(inputQueue.queue) >= 2
    /\ inputQueue.frameCounter >= 2
    /\ inputQueue.gameStartTime > 0
    /\ ui.arg[1].queue = inputQueue.queue

(***************************************************************************)
(* Properties of the panel and ghost specifications.                       *)
(***************************************************************************)
\* the step is a call of importJson
ImportStep == ui'.op = "importJson" /\ ui'.calls = ui.calls + 1

\* the file exportJson wrote last held a recording
ExportedRecording == ui.ghost # Null /\ PositionsOf(ui.ghost[1]) # Null

\* C16: importJson of the text exportJson returned for a recording leaves a
\* playback recording whose inputs and positions are those of the recording
\* exported, in length, order and values.
C16_ExportImportRoundTrip ==
    [][(/\ ImportStep
        /\ ExportedRecording
        /\ ui'.text = Some(RecordingToJson(ui.ghost[1]))) =>
          /\ ghostStore'.lastRecording # Null
          /\ PositionsOf(ghostStore'.lastRecording[1]) # Null
          /\ ghostStore'.lastRecording[1].inputs = ui.ghost[1].inputs
          /\ ghostStore'.lastRecording[1].positions =
                 ui.ghost[1].positions]_vars

\* the exported text of a recording with an input and two samples was the
\* last text imported, and lastRecording holds them
C16_Witness ==
    /\ ui.op = "importJson"
    /\ ExportedRecording
    /\ ui.text = Some(RecordingToJson(ui.ghost[1]))
    /\ Len(ui.ghost[1].inputs) >= 1
    /\ Len(ui.ghost[1].positions) >= 2
    /\ ghostStore.lastRecording # Null
    /\ PositionsOf(ghostStore.lastRecording[1]) = Some(ui.ghost[1].positions)

\* C17: importJson of a text that is no JSON does not throw and leaves
\* lastRecording and every other field of the ghost store as they were.
C17_UnparsableImportIgnored ==
    [][(ImportStep /\ ui'.text = Some(NotJson)) =>
          /\ ghostStore' = ghostStore
          /\ ~ui'.threw]_vars

\* a text that is no JSON was imported while a playback recording was held
C17_Witness ==
    /\ ui.op = "importJson"
    /\ ui.text = Some(NotJson)
    /\ ghostStore.lastRecording # Null
    /\ PositionsOf(ghostStore.lastRecording[1]) # Null
    /\ Len(ghostStore.lastRecording[1].positions) >= 1

\* C18: importJson of a text that is not a recording in the persisted format
\* (no JSON, null, {}, an object without positions) leaves the ghost store
\* as it was, and no call of startPlayback, seekTo or getDuration throws.
C18_WrongShapeDiscarded ==
    [][/\ (ImportStep /\ ~IsRecordingJson(ui'.text[1])) =>
             ghostStore' = ghostStore
       /\ ~ui'.threw
       /\ ~PositionsUndefined(ghostStore')]_vars

\* the step is a call of the store method op by the panel
PanelStep(op) == ui'.op = op /\ ui'.calls = ui.calls + 1

Paused(g) == g.isPaused /\ ~g.isPlaying

\* C19: pausePlayback leaves the playhead at the value it had when called,
\* the playhead of a paused store does not move when the clock advances, and
\* resumePlayback of a paused store leaves the playhead at that value and
\* sets it running again.
C19_PauseFreezesPlayhead ==
    [][/\ (PanelStep("pausePlayback") /\ ghostStore.isPlaying) =>
             /\ Paused(ghostStore')
             /\ GetPlayhead(ghostStore', now') = GetPlayhead(ghostStore, now)
       /\ (Paused(ghostStore) /\ now' # now) =>
             /\ Paused(ghostStore')
             /\ GetPlayhead(ghostStore', now') = GetPlayhead(ghostStore, now)
       /\ (PanelStep("resumePlayback") /\ Paused(ghostStore)) =>
             /\ ghostStore'.isPlaying
             /\ GetPlayhead(ghostStore', now') = GetPlayhead(ghostStore, now)
       ]_vars

\* playback ran for a while, was paused, the clock advanced, and playback
\* has just been resumed
C19_Witness ==
    /\ ui.op = "resumePlayback"
    /\ ui.arg # Null
    /\ ghostStore.isPlaying
    /\ ghostStore.playStartTime = now
    /\ ghostStore.playStartTime > ui.arg[1]
    /\ ghostStore.playOffsetMs > 0

(***************************************************************************)
(* Properties of the interpolation specification.                          *)
(***************************************************************************)
\* C20: when the playhead p lies in a segment of consecutive samples a, b
\* (a.t <= p < b.t), the position the frame callback sets is
\* a.position + (b.position - a.position) * (p - a.t) / (b.t - a.t); for the
\* samples (0, [0,0,0]), (100, [10,0,0]) and p = 50 it is [5,0,0].
C20_LinearInterpolation ==
    (ui.op = "useFrame") =>
        LET positions == GhostPositions(ghostStore)
            p == GetPlayhead(ghostStore, now)
        IN  /\ \A i \in 1..Len(positions) - 1 :
                  LET a == positions[i]
                      b == positions[i + 1]
                  IN  (a.t <= p /\ p < b.t) =>
                        /\ ui.ghost # Null
                        /\ \A k \in 1..3 :
                              ui.ghost[1].num[k] * (b.t - a.t) =
                                ui.ghost[1].den
                                  * (a.position[k] * (b.t - a.t)
                                       + (b.position[k] - a.position[k])
                                           * (p - a.t))
            /\ (positions = ExampleSamples /\ p = 50) =>
                  /\ ui.ghost # Null
                  /\ ui.ghost[1].num =
                        [k \in 1..3 |-> <<5, 0, 0>>[k] * ui.ghost[1].den]

\* the playhead lies strictly inside the second segment of three samples
\* that differ, and the mesh has been placed
C20_Witness ==
    /\ ui.op = "useFrame"
    /\ ui.ghost # Null
    /\ LET positions == GhostPositions(ghostStore)
           p == GetPlayhead(ghostStore, now)
       IN  /\ Len(positions) = 3
           /\ positions[2].t < p
           /\ p < positions[3].t
           /\ positions[1].t < positions[2].t
           /\ positions[2].position # positions[3].position

(***************************************************************************)
(* Further properties of the checkpoint specification.                     *)
(***************************************************************************)
\* C21: every entry into a sensor that the validity rule accepts, whether it
\* completes a lap or not, sets the respawn position to the centre of that
\* checkpoint raised by RespawnLift and the respawn yaw and roll to the
\* rotation of that checkpoint.
C21_ValidEntrySetsRespawn ==
    [][(/\ NewlyEntering
        /\ ValidByRule(frame.next, checkPointStore.checkpoints.last,
                       checkPointStore.checkpoints.total))
       => /\ checkPointStore'.respawnPosition =
                Some(<<Center(frame.next)[1],
                       Center(frame.next)[2] + RespawnLift,
                       Center(frame.next)[3]>>)
          /\ checkPointStore'.respawnRotation = Some(RotationZ(frame.next))
          /\ checkPointStore'.respawnRoll = Some(RotationZ(frame.next))]_vars

\* a valid entry into checkpoint 1 that completes no lap has just moved the
\* respawn pose from checkpoint 0 to checkpoint 1
C21_Witness ==
    /\ lastOp = "checkpoint"
    /\ hist.evt.index = 1
    /\ hist.evt.inside /\ ~hist.evt.dwelling /\ ~hist.evt.lapInc
    /\ hist.entries = <<0, 1>>
    /\ checkPointStore.checkpoints.last = 1
    /\ checkPointStore.respawnRotation = Some(RotationZ(1))
    /\ checkPointStore.respawnPosition =
          Some(<<Center(1)[1], Center(1)[2] + RespawnLift, Center(1)[3]>>)

(***************************************************************************)
(* stepKart.  Speeds and the steer input are in hundredths (0.01 m/s,      *)
(* 0.01 of full lock), so the thresholds 2, 0.1 and 0.02 of the code are   *)
(* 200, 10 and 2; angles and the other quantities are integers in units   *)
(* of their own.  The speed is compared by its square.  Where the          *)
(* velocity before the step is zero every product with sin, cos and atan2  *)
(* has a zero factor or an argument 0 and the step is computed exactly;    *)
(* elsewhere the model does not compute the trigonometric functions, and   *)
(* the velocity, yaw and yaw rate after the step are any values of a grid. *)
(***************************************************************************)
DriftSpeed == 200

DriftSteer == 10

RestSpeed == 2

Abs(x) == IF x < 0 THEN -x ELSE x

Sign(x) == IF x > 0 THEN 1 ELSE IF x < 0 THEN -1 ELSE 0

\* len(vel) squared
SpeedSq(vel) == vel[1] * vel[1] + vel[2] * vel[2]

DriftSwitchNoSpeedTest(state, input, p) ==
    IF input.drift /\ ~state.drift /\ Abs(input.steer) > DriftSteer
    THEN [state EXCEPT !.drift = TRUE, !.driftDir = 1]
    ELSE IF ~input.drift
    THEN [state EXCEPT !.drift = FALSE, !.driftDir = 0]
    ELSE state

\* the state after the drift switch; the sign of targetSteer is the sign of
\* input.steer * p.steerMax, the attenuation being positive
DriftSwitch(state, input, p) ==
    IF /\ input.drift
       /\ ~state.drift
       /\ SpeedSq(state.vel) > DriftSpeed * DriftSpeed
       /\ Abs(input.steer) > DriftSteer
    THEN [state EXCEPT
             !.drift = TRUE,
             !.driftDir = IF Sign(input.steer * p.steerMax) # 0
                          THEN Sign(input.steer * p.steerMax)
                          ELSE IF state.driftDir # 0 THEN state.driftDir
                          ELSE 1]
    ELSE IF ~input.drift
    THEN [state EXCEPT !.drift = FALSE, !.driftDir = 0]
    ELSE state

BlendDriftYawAlways(state, p, dt) ==
    [state EXCEPT !.driftYawOffset =
        @ + (p.driftYawMax - @) * Min(1, p.steerSpeed * dt)]

\* driftYawOffset += (driftYawTarget - driftYawOffset)
\*                      * Math.min(1, p.steerSpeed * dt)
BlendDriftYaw(state, p, dt) ==
    LET driftYawTarget == IF state.drift THEN state.driftDir * p.driftYawMax
                          ELSE 0
    IN  [state EXCEPT !.driftYawOffset =
            @ + (driftYawTarget - @) * Min(1, p.steerSpeed * dt)]

\* the rest of the step for a kart whose velocity before the step is zero
\* and whose acceleration points along yaw 0 or is zero: the yaw rate is
\* 0 / wheelBase * sin and the local velocity is the zero vector
MoveFromRest(state, input, p, dt) ==
    LET ax == input.throttle * p.accel - input.brake * p.brake
        vel == <<ax * dt, 0>>
        sp == Abs(ax * dt)
        capped == IF sp > p.maxSpeed THEN <<Sign(ax * dt) * p.maxSpeed, 0>>
                  ELSE vel
        snapped == IF sp < RestSpeed THEN <<0, 0>> ELSE capped
    IN  [state EXCEPT
            !.yawRate = 0,
            !.vel = snapped,
            !.pos = <<@[1] + snapped[1] * dt, @[2] + snapped[2] * dt>>]

KartVels == {<<0, 0>>, <<200, 0>>, <<120, 160>>, <<201, 0>>, <<0, -300>>}

KartAngles == {-1, 0, 1}

\* the states stepKart may leave in `state`
StepKart(state, input, p, dt) ==
    LET blended == BlendDriftYaw(DriftSwitch(state, input, p), p, dt)
        ax == input.throttle * p.accel - input.brake * p.brake
    IN  IF state.vel = <<0, 0>> /\ (ax = 0 \/ state.yaw = 0)
        THEN {MoveFromRest(blended, input, p, dt)}
        ELSE {[blended EXCEPT
                  !.vel = vel, !.yaw = yaw, !.yawRate = yawRate,
                  !.pos = <<@[1] + vel[1] * dt, @[2] + vel[2] * dt>>] :
                vel \in KartVels,
                yaw \in {state.yaw - 1, state.yaw, state.yaw + 1},
                yawRate \in KartAngles}

KartStates ==
    [pos : {<<0, 0>>}, vel : KartVels, yaw : {0, 1}, yawRate : {0, 1},
     drift : BOOLEAN, driftDir : KartAngles, driftYawOffset : KartAngles]

KartInputs ==
    [throttle : {0, 1}, brake : {0, 1}, steer : {-100, -10, 0, 11, 100},
     drift : BOOLEAN]

\* two tunings; stepKart has no caller that fixes one
KartTunings ==
    {[accel |-> 3, brake |-> 3, maxSpeed |-> 4, drag |-> 1, roll |-> 1,
      steerMax |-> 1, steerSpeed |-> steerSpeed, wheelBase |-> 2, grip |-> 1,
      driftGripScale |-> 1, driftYawMax |-> 1, surfaceFriction |-> 1] :
       steerSpeed \in {0, 1}}

(***************************************************************************)
(* Specification of the kart: one call of stepKart on any state, with any  *)
(* input, tuning and time step of the sets above.                          *)
(***************************************************************************)
StepKartCall ==
    /\ kart.calls = 0
    /\ \E next \in StepKart(kart.state[1], kart.input[1], kart.p[1],
                             kart.dt) :
           kart' = [kart EXCEPT !.state = Some(next), !.before = kart.state,
                                !.calls = 1]
    /\ UNCHANGED <<now, inputQueue, lastPressed, liveAt, lastOp, scope, run,
                   checkPointStore, ghostStore, timeStore, physics, frame,
                   hist, ui, player, engine, carStore>>

InitKart ==
    /\ scope = [horizon |-> KartMaxDt, deltas |-> {},
                events |-> 0, keys |-> {},
                ops |-> 0]
    /\ now = 0
    /\ inputQueue = NewInputQueue
    /\ lastPressed = [a \in InputAction |-> "none"]
    /\ liveAt = [t \in 0..scope.horizon |-> {}]
    /\ lastOp = "mount"
    /\ run = [r \in Runs |-> NewRun]
    /\ checkPointStore = InitialCheckPointStore
    /\ ghostStore = InitialGhostStore
    /\ timeStore = InitialTimeStore
    /\ physics = NewPhysics
    /\ frame = [next |-> Idle, lastFrameTime |-> 0]
    /\ hist = NewHist
    /\ ui = NewUi
    /\ \E state \in KartStates, input \in KartInputs, p \in KartTunings,
          dt \in 0..KartMaxDt :
           kart = [state |-> Some(state), before |-> Null,
                   input |-> Some(input), p |-> Some(p), dt |-> dt,
                   calls |-> 0]
    /\ player = NewPlayer
    /\ engine = NewEngine
    /\ carStore = InitialCarStore

NextKart == StepKartCall

SpecKart == InitKart /\ [][NextKart]_vars

(***************************************************************************)
(* Properties of the kart specification.                                   *)
(***************************************************************************)
\* C22: a step switches drift mode from off to on only when the drift flag
\* is set, the speed before the step exceeds the threshold and |steer|
\* exceeds the deadzone; so never at speed 0 or at or below the threshold.
C22_DriftEntryNeedsSpeed ==
    [][(/\ kart'.calls = 1
        /\ ~kart.state[1].drift
        /\ kart'.state[1].drift)
       => /\ kart.input[1].drift
          /\ SpeedSq(kart.state[1].vel) > DriftSpeed * DriftSpeed
          /\ Abs(kart.input[1].steer) > DriftSteer]_vars

\* a step with the drift flag set and the steer fully to one side left a
\* kart at rest out of drift mode, and likewise a kart at exactly the
\* threshold speed; a kart just above it entered drift mode to that side
C22_Witness ==
    /\ kart.calls = 1
    /\ kart.input[1].drift
    /\ kart.input[1].steer = -100
    /\ ~kart.before[1].drift
    /\ \/ kart.before[1].vel = <<201, 0>>
          /\ kart.state[1].drift /\ kart.state[1].driftDir = -1
       \/ kart.before[1].vel \in {<<0, 0>>, <<120, 160>>}
          /\ ~kart.state[1].drift

ZeroInput(input) ==
    /\ input.throttle = 0
    /\ input.brake = 0
    /\ input.steer = 0
    /\ ~input.drift

\* C23: a step with zero input of a state whose velocity is zero leaves the
\* whole state unchanged, for every time step.
C23_ZeroVelocityUnchanged ==
    [][(/\ kart'.calls = 1
        /\ kart.state[1].vel = <<0, 0>>
        /\ ZeroInput(kart.input[1]))
       => kart'.state = kart.state]_vars

\* a state at rest: nothing in it that a step with zero input would settle
AtRest(state, p, dt) ==
    /\ state.vel = <<0, 0>>
    /\ state.yawRate = 0
    /\ ~state.drift
    /\ state.driftDir = 0
    /\ state.driftYawOffset = 0 \/ p.steerSpeed * dt = 0

\* C23 (amended): a step with zero input of a state at rest (zero velocity,
\* zero yaw rate, not drifting, drift direction 0, and drift yaw offset 0 or
\* steerSpeed * dt = 0) leaves the whole state unchanged, for every time
\* step; the state being the only one the step can leave, so does every
\* repetition of the step.
C23_RestUnchanged ==
    [][(/\ kart'.calls = 1
        /\ AtRest(kart.state[1], kart.p[1], kart.dt)
        /\ ZeroInput(kart.input[1]))
       => /\ kart'.state = kart.state
          /\ StepKart(kart'.state[1], kart.input[1], kart.p[1], kart.dt)
               = {kart'.state[1]}]_vars

\* a step of two time units with zero input has been made on a state at
\* rest that is turned away from yaw 0
C23_Witness ==
    /\ kart.calls = 1
    /\ ZeroInput(kart.input[1])
    /\ kart.dt = 2
    /\ kart.p[1].steerSpeed = 1
    /\ AtRest(kart.before[1], kart.p[1], kart.dt)
    /\ kart.before[1].yaw = 1
    /\ kart.state = kart.before

(***************************************************************************)
(* The movement tick of usePlayerMovementLoop and the jump of both builds  *)
(* of the Player.  The drive speed is counted in units of 1/240 RPM, so    *)
(* that an acceleration of a RPM per second adds a units per quantum.  The *)
(* tuning is PLAYER_TUNING.motor.ev with the grip of the car (1.0).  The   *)
(* product with collisionEnergyLoss is rounded towards zero to the unit.   *)
(***************************************************************************)
\* driveMaxSpeed: maxRPM 800
DriveMaxSpeed == 192000

\* driveAccel: accelRPM 800, per quantum
DriveAccel == 800

\* driveDecel: decelRPM 300, per quantum
DriveDecel == 300

\* Math.abs(driveSpeedCurrent) > 0.1 rad/s, which is 229.2 units
CollisionSpeed == 229

\* collisionEnergyLoss 0.01 keeps one part in a hundred
CollisionLoss == 100

\* the keys of the drive and of the jump
DriveKeys == {"forward", "backward", "jump"}

DriveSpeedAfterAnyInput(driveSpeedCurrent, currentInputs, onGround, delta) ==
    LET targetDriveSpeed ==
            IF "forward" \in currentInputs THEN DriveMaxSpeed
            ELSE IF "backward" \in currentInputs THEN -DriveMaxSpeed
            ELSE 0
    IN  IF targetDriveSpeed > driveSpeedCurrent
        THEN Min(targetDriveSpeed, driveSpeedCurrent + DriveAccel * delta)
        ELSE IF targetDriveSpeed < driveSpeedCurrent
        THEN Max(targetDriveSpeed, driveSpeedCurrent - DriveDecel * delta)
        ELSE driveSpeedCurrent

\* newDriveSpeed
DriveSpeedAfter(driveSpeedCurrent, currentInputs, onGround, delta) ==
    LET targetDriveSpeed ==
            IF "forward" \in currentInputs THEN DriveMaxSpeed
            ELSE IF "backward" \in currentInputs THEN -DriveMaxSpeed
            ELSE 0
        effectiveTargetDriveSpeed ==
            IF ~onGround THEN driveSpeedCurrent ELSE targetDriveSpeed
        tractionAccel == IF onGround THEN DriveAccel ELSE 0
        tractionDecel == IF onGround THEN DriveDecel ELSE 0
    IN  IF effectiveTargetDriveSpeed > driveSpeedCurrent
        THEN Min(effectiveTargetDriveSpeed,
                 driveSpeedCurrent + tractionAccel * delta)
        ELSE IF effectiveTargetDriveSpeed < driveSpeedCurrent
        THEN Max(effectiveTargetDriveSpeed,
                 driveSpeedCurrent - tractionDecel * delta)
        ELSE driveSpeedCurrent

\* the collision response on the stored drive speed
Bounce(driveSpeed, hasCollision) ==
    IF hasCollision /\ Abs(driveSpeed) > CollisionSpeed
    THEN -Sign(driveSpeed) * (Abs(driveSpeed) \div CollisionLoss)
    ELSE driveSpeed

\* the useFrame callback of usePlayerMovementLoop: the stored drive speed
\* and the jump.  isJumping is the value the callback was rendered with.
MovementTick ==
    /\ player.loop = "frame"
    /\ physics.player
    /\ now > run[1].lastFrameTime
    /\ LET delta == now - run[1].lastFrameTime
           currentInputs == GetCurrentInputs(inputQueue)
           newDriveSpeed == DriveSpeedAfter(player.driveSpeedCurrent,
                                currentInputs, player.onGround, delta)
           jump == "jump" \in currentInputs /\ player.onGround
                      /\ ~player.isJumping
       IN  player' = [player EXCEPT
               !.driveSpeedCurrent = Bounce(newDriveSpeed, player.contact),
               !.isJumping = @ \/ jump,
               !.impulses = @ + (IF jump THEN 1 ELSE 0),
               !.tick = Some([onGround |-> player.onGround,
                              currentInputs |-> currentInputs,
                              hasCollision |-> player.contact,
                              driveSpeedCurrent |-> player.driveSpeedCurrent,
                              newDriveSpeed |-> newDriveSpeed])]
    /\ run' = [run EXCEPT ![1].lastFrameTime = now]
    /\ lastOp' = "movement"
    /\ UNCHANGED <<now, inputQueue, lastPressed, liveAt, scope, kart, engine,
                   carStore, raceVars>>

\* the substeps log[from + 1 .. Len(log)] that inject the jump impulse:
\* movement.shouldJump && player.onGround && !isJumping, with onGround and
\* isJumping as they are when the callback starts
JumpSubsteps(log, from, onGround, isJumping) ==
    {i \in (from + 1)..Len(log) :
        "jump" \in log[i].activeInputs /\ onGround /\ ~isJumping}

\* the useFrame callback of the Player with the fixed time step
PlayerFrame ==
    /\ player.loop = "fixed"
    /\ physics.player
    /\ now > run[1].lastFrameTime
    /\ run' = [run EXCEPT ![1] = FrameCallback(run[1], inputQueue, now)]
    /\ LET jumps == JumpSubsteps(run'[1].substepLog, Len(run[1].substepLog),
                                 player.onGround, player.isJumping)
       IN  player' = [player EXCEPT
               !.isJumping = @ \/ jumps # {},
               !.impulses = @ + Cardinality(jumps)]
    /\ lastOp' = "frame"
    /\ UNCHANGED <<now, inputQueue, lastPressed, liveAt, scope, kart, engine,
                   carStore, raceVars>>

\* PhysicsEngine.step as the player sees it: the raycast sets onGround, the
\* boxes are in contact or not, and the ground callback, called when the
\* ray hits while the vertical speed exceeds 0.1, clears isJumping
PhysicsStep ==
    /\ physics.player
    /\ \E onGround \in BOOLEAN, contact \in BOOLEAN, fast \in BOOLEAN :
           player' = [player EXCEPT
               !.onGround = onGround,
               !.contact = contact,
               !.isJumping = IF onGround /\ fast THEN FALSE ELSE @,
               !.impulses = IF onGround /\ fast THEN 0 ELSE @]
    /\ lastOp' = "physics"
    /\ UNCHANGED <<now, inputQueue, lastPressed, liveAt, scope, kart, engine,
                   carStore, run, raceVars>>

(***************************************************************************)
(* Specification of the player: the body exists, the user operates the     *)
(* drive and jump keys, the physics engine steps and the frame callback of *)
(* usePlayerMovementLoop runs.                                             *)
(***************************************************************************)
InitPlayer ==
    /\ scope = [horizon |-> PlayerHorizon, deltas |-> {1},
                events |-> PlayerEvents, keys |-> DriveKeys,
                ops |-> 0]
    /\ now = 0
    /\ inputQueue = NewInputQueue
    /\ lastPressed = [a \in InputAction |-> "none"]
    /\ liveAt = [t \in 0..scope.horizon |-> {}]
    /\ lastOp = "init"
    /\ run = [r \in Runs |-> NewRun]
    /\ checkPointStore = InitialCheckPointStore
    /\ ghostStore = InitialGhostStore
    /\ timeStore = InitialTimeStore
    /\ physics = [NewPhysics EXCEPT !.player = TRUE]
    /\ frame = [next |-> Idle, lastFrameTime |-> 0]
    /\ hist = NewHist
    /\ ui = NewUi
    /\ kart = NewKart
    /\ player = NewPlayer
    /\ engine = NewEngine
    /\ carStore = InitialCarStore

NextPlayer ==
    \/ Tick
    \/ HandleKeyDown
    \/ HandleKeyUp
    \/ PhysicsStep
    \/ MovementTick

SpecPlayer == InitPlayer /\ [][NextPlayer]_vars

(***************************************************************************)
(* Specification of the jump: the same with the Player of the fixed time   *)
(* step, whose frame callback runs a substep for every fixed step of the   *)
(* time accumulated; the user operates the jump key.                       *)
(***************************************************************************)
InitJump ==
    /\ scope = [horizon |-> JumpHorizon, deltas |-> {1},
                events |-> JumpEvents, keys |-> {"jump"},
                ops |-> 0]
    /\ now = 0
    /\ inputQueue = NewInputQueue
    /\ lastPressed = [a \in InputAction |-> "none"]
    /\ liveAt = [t \in 0..scope.horizon |-> {}]
    /\ lastOp = "init"
    /\ run = [r \in Runs |-> NewRun]
    /\ checkPointStore = InitialCheckPointStore
    /\ ghostStore = InitialGhostStore
    /\ timeStore = InitialTimeStore
    /\ physics = [NewPhysics EXCEPT !.player = TRUE]
    /\ frame = [next |-> Idle, lastFrameTime |-> 0]
    /\ hist = NewHist
    /\ ui = NewUi
    /\ kart = NewKart
    /\ player = [NewPlayer EXCEPT !.loop = "fixed"]
    /\ engine = NewEngine
    /\ carStore = InitialCarStore

NextJump ==
    \/ Tick
    \/ HandleKeyDown
    \/ HandleKeyUp
    \/ PhysicsStep
    \/ PlayerFrame

SpecJump == InitJump /\ [][NextJump]_vars

\* C24: while the player is not on the ground, a movement tick leaves the
\* stored drive speed unchanged, whatever forward or backward inputs are
\* active during that tick
C24_AirborneKeepsDriveSpeed ==
    [][lastOp' = "movement" /\ ~player.onGround
          => player'.driveSpeedCurrent = player.driveSpeedCurrent]_vars

\* C24, amended: while the player is not on the ground, a movement tick
\* leaves the stored drive speed unchanged, whatever forward or backward
\* inputs are active during that tick, unless the tick detects a contact
\* with a non-sensor obstacle while the magnitude of the drive speed
\* exceeds 0.1
C24_AirborneKeepsDriveSpeedUnlessCollision ==
    [][(/\ lastOp' = "movement"
        /\ ~player.onGround
        /\ ~(/\ player.contact
             /\ Abs(player.driveSpeedCurrent) > CollisionSpeed))
          => player'.driveSpeedCurrent = player.driveSpeedCurrent]_vars

\* an airborne tick ran with the forward key held on a moving player that
\* touches no obstacle
C24_Witness ==
    /\ lastOp = "movement"
    /\ player.tick # Null
    /\ ~player.tick[1].onGround
    /\ ~player.tick[1].hasCollision
    /\ "forward" \in player.tick[1].currentInputs
    /\ player.tick[1].driveSpeedCurrent > CollisionSpeed
    /\ player.tick[1].driveSpeedCurrent < DriveMaxSpeed
    /\ player.driveSpeedCurrent = player.tick[1].driveSpeedCurrent

\* C25: a jump impulse is injected only when the player is grounded, jump
\* is among the active inputs and isJumping is false; once one has been
\* injected, no further impulse is injected, in a later substep of the same
\* tick or in a later tick, until a ground-contact callback has cleared
\* the jumping flag
C25_OneImpulsePerJump ==
    [][player'.impulses > player.impulses
          => /\ player.onGround
             /\ ~player.isJumping
             /\ \/ "jump" \in GetCurrentInputs(inputQueue)
                \/ \E i \in 1..Len(run'[1].substepLog) :
                       "jump" \in run'[1].substepLog[i].activeInputs
             /\ player'.impulses = 1]_vars

\* the actions the user has released: the latest addInput call of the
\* action was a release and the live set does not hold it
Released ==
    {a \in InputAction :
        lastPressed[a] = "release" /\ a \notin GetCurrentInputs(inputQueue)}

\* the substeps the frame callback of run r executes in this step
NewSubsteps(r) ==
    {i \in 1..Len(run'[r].substepLog) : i > Len(run[r].substepLog)}

\* C26: once the user has released an action (its release event has been
\* added and the action is absent from getCurrentInputs()), no later
\* substep of the fixed-timestep movement loop treats that action as
\* active, even when game time lags behind real time
C26_ReleasedNeverActive ==
    [][\A r \in Runs : \A i \in NewSubsteps(r) :
          run'[r].substepLog[i].activeInputs \cap Released = {}]_vars

(***************************************************************************)
(* The mount of the scene: usePhysicsEngine starts RAPIER.init(), whose    *)
(* promise sets engineRef.current when it resolves; the Player and every   *)
(* Checkpoint arm a timer of 100 ms that asks the engine for its object.   *)
(* A call made through the hook while engineRef.current is null returns    *)
(* undefined and creates nothing; no effect arms its timer again.          *)
(***************************************************************************)
\* the id of the player object: "player"
PlayerId == <<"player", 0>>

\* checkpointId.current of the Checkpoint with the given index
CheckpointId(index) == <<"checkpoint", index>>

\* the checkpoints of the scene
Sensors == {CheckpointId(index) : index \in 0..MaxTotal}

\* the objects the scene asks for
Bodies == {PlayerId} \cup Sensors

\* RAPIER.init().then(() => { engineRef.current = new PhysicsEngine(config) })
EngineInit ==
    /\ ~engine.ready
    /\ engine' = [engine EXCEPT !.ready = TRUE]
    /\ lastOp' = "engineInit"
    /\ UNCHANGED <<now, inputQueue, lastPressed, liveAt, scope, run, kart,
                   player, carStore, raceVars>>

\* engineRef.current?.createPlayer(...), ...?.createSensorCheckpoint(...)
\* called by the timer of the object id
CreateObject(e, id) ==
    [e EXCEPT !.fired = @ \cup {id},
              !.objects = IF e.ready THEN @ \cup {id} ELSE @]

\* the timer of usePlayerInitialization
PlayerTimer ==
    /\ PlayerId \notin engine.fired
    /\ engine' = CreateObject(engine, PlayerId)
    /\ lastOp' = "playerTimer"
    /\ UNCHANGED <<now, inputQueue, lastPressed, liveAt, scope, run, kart,
                   player, carStore, raceVars>>

\* the timer of the Checkpoint with the given id
SensorTimer(id) ==
    /\ id \notin engine.fired
    /\ engine' = CreateObject(engine, id)
    /\ lastOp' = "sensorTimer"
    /\ UNCHANGED <<now, inputQueue, lastPressed, liveAt, scope, run, kart,
                   player, carStore, raceVars>>

\* the frame callback of the movement loop: it returns at once while
\* getObject("player") is null
MovementLoopFrame ==
    /\ PlayerId \in engine.objects
    /\ engine' = [engine EXCEPT !.running = @ \cup {PlayerId}]
    /\ lastOp' = "movement"
    /\ UNCHANGED <<now, inputQueue, lastPressed, liveAt, scope, run, kart,
                   player, carStore, raceVars>>

\* the frame callback of a Checkpoint: it returns at once while the player
\* or checkpointObjectRef.current is missing
DetectionFrame(id) ==
    /\ PlayerId \in engine.objects
    /\ id \in engine.objects
    /\ engine' = [engine EXCEPT !.running = @ \cup {id}]
    /\ lastOp' = "checkpoint"
    /\ UNCHANGED <<now, inputQueue, lastPressed, liveAt, scope, run, kart,
                   player, carStore, raceVars>>

InitMount ==
    /\ scope = [horizon |-> 0, deltas |-> {}, events |-> 0, keys |-> {},
                ops |-> 0]
    /\ InitCommon

NextMount ==
    \/ EngineInit
    \/ PlayerTimer
    \/ \E id \in Sensors : SensorTimer(id)
    \/ MovementLoopFrame
    \/ \E id \in Sensors : DetectionFrame(id)

SpecMount == InitMount /\ [][NextMount]_vars

\* the promise resolves, every timer fires and every frame callback keeps
\* being called
SpecMountFair ==
    /\ SpecMount
    /\ WF_vars(EngineInit)
    /\ WF_vars(PlayerTimer)
    /\ \A id \in Sensors : WF_vars(SensorTimer(id))
    /\ WF_vars(MovementLoopFrame)
    /\ \A id \in Sensors : WF_vars(DetectionFrame(id))

\* C27: for every interleaving of the asynchronous initialisation of the
\* physics engine with the 100 ms timers that create the player body and
\* the checkpoint sensors, the player body and every checkpoint sensor
\* eventually exist, and the movement loop and the checkpoint detection
\* eventually run
C27_BodiesEventuallyExist ==
    <>(engine.objects = Bodies /\ engine.running = Bodies)


(***************************************************************************)
(* The start of the race with the two timers of usePlayerInitialization    *)
(* apart: the first creates the body and, last being 0, arms the second,   *)
(* which 50 ms (12 quanta) later resets the player and starts the session  *)
(* clock, the lap clock and the recording.  The render ticks between the   *)
(* two run the checkpoint callbacks, the body being there.                 *)
(***************************************************************************)
\* the timer of 100 ms
CreatePlayerTimer ==
    /\ ~physics.player
    /\ now >= 1
    /\ physics' = [physics EXCEPT !.player = TRUE]
    /\ engine' = [CreateObject(engine, PlayerId) EXCEPT
                     !.armed = IF checkPointStore.checkpoints.last = 0
                               THEN {PlayerId} ELSE {}]
    /\ lastOp' = "playerTimer"
    /\ UNCHANGED <<now, inputQueue, lastPressed, liveAt, scope, run, kart,
                   player, carStore, checkPointStore, ghostStore, timeStore,
                   frame, hist, ui>>

\* the nested timer of 50 ms; the position it sets is replaced by the
\* physics step of the next render tick before any callback reads it
SpawnTimer ==
    /\ PlayerId \in engine.armed
    /\ frame.next = Idle
    /\ engine' = [engine EXCEPT !.armed = {}]
    /\ inputQueue' = ResetInputQueue(inputQueue, now)
    /\ run' = [run EXCEPT ![1] = ResetRun(run[1])]
    /\ lastPressed' = [a \in InputAction |->
                          IF a \in GetCurrentInputs(inputQueue) THEN "press"
                          ELSE lastPressed[a]]
    /\ liveAt' = [liveAt EXCEPT ![now] = GetCurrentInputs(inputQueue')]
    /\ timeStore' = StartLap(SetStartTime(timeStore, now), now)
    /\ ghostStore' = StartRecording(ghostStore, now)
    /\ lastOp' = "init"
    /\ UNCHANGED <<now, scope, kart, player, carStore, checkPointStore,
                   physics, frame, hist, ui>>

InitStart ==
    /\ scope = [horizon |-> StartHorizon, deltas |-> {1},
                events |-> 0, keys |-> {},
                ops |-> 0]
    /\ now = 0
    /\ inputQueue = NewInputQueue
    /\ lastPressed = [a \in InputAction |-> "none"]
    /\ liveAt = [t \in 0..scope.horizon |-> {}]
    /\ lastOp = "mount"
    /\ run = [r \in Runs |-> NewRun]
    /\ \E total \in 1..MaxTotal :
           checkPointStore = MountCheckpoints(InitialCheckPointStore, 0, total)
    /\ ghostStore = InitialGhostStore
    /\ timeStore = InitialTimeStore
    /\ physics = NewPhysics
    /\ frame = [next |-> Idle, lastFrameTime |-> 0]
    /\ hist = NewHist
    /\ ui = NewUi
    /\ kart = NewKart
    /\ player = NewPlayer
    /\ engine = [NewEngine EXCEPT !.ready = TRUE]
    /\ carStore = InitialCarStore

NextStart ==
    \/ ClockStep
    \/ CreatePlayerTimer
    \/ SpawnTimer
    \/ BeginFrame
    \/ CheckpointFrame
    \/ GhostRecorderFrame

SpecStart == InitStart /\ [][NextStart]_vars

C29_StopResetsPlayback ==
    [][PanelStep("stopPlayback")
          => /\ ~ghostStore'.isPlaying
             /\ ~ghostStore'.isPaused
             /\ GetPlayhead(ghostStore', now') = 0]_vars

(***************************************************************************)
(* The save points: onIntersectionEnter of <SavePoint id maxId>, reading   *)
(* savePointId as the store holds it (the component is rendered again on   *)
(* every change of the store).                                             *)
(***************************************************************************)
\* setSavePointId and setLapTime of useCarStore
SetSavePointId(store, savePointId) == [store EXCEPT !.savePointId = savePointId]

SetLapTime(store, lapTime) == [store EXCEPT !.lapTime = lapTime]

\* onIntersectionEnter; dynamic tells whether the other body is dynamic
OnIntersectionEnter(store, id, maxId, dynamic, time) ==
    IF ~dynamic THEN store
    ELSE IF id - 1 # store.savePointId /\ store.savePointId # maxId
    THEN store
    ELSE SetSavePointId(IF id = maxId THEN SetLapTime(store, time) ELSE store,
                        id)

\* a body enters the pad of a save point
SavePointEnter ==
    /\ ui.calls < scope.ops
    /\ \E id \in 0..SaveMaxId, dynamic \in BOOLEAN :
           /\ carStore' = OnIntersectionEnter(carStore, id, SaveMaxId,
                                              dynamic, now)
           /\ ui' = [Called("onIntersectionEnter", FALSE) EXCEPT
                        !.arg = Some([id |-> id, dynamic |-> dynamic])]
    /\ lastOp' = "savePoint"
    /\ UNCHANGED <<now, inputQueue, lastPressed, liveAt, scope, kart, player,
                   engine, run, checkPointStore, ghostStore, timeStore,
                   physics, frame, hist>>

InitSave ==
    /\ scope = [horizon |-> SaveHorizon, deltas |-> {1}, events |-> 0,
                keys |-> {}, ops |-> SaveEvents]
    /\ InitCommon

NextSave == Tick \/ SavePointEnter

SpecSave == InitSave /\ [][NextSave]_vars

\* C30: the registered save-point id advances only in order: a save point
\* with id k is registered only when savePointId = k - 1, or when k = 0 and
\* savePointId = maxId (wrap after the finish); entering any other save
\* point leaves savePointId and lapTime unchanged
C30_SavePointsInOrder ==
    [][PanelStep("onIntersectionEnter")
          => LET k == ui'.arg[1].id
             IN  \/ carStore.savePointId = k - 1
                 \/ k = 0 /\ carStore.savePointId = SaveMaxId
                 \/ carStore' = carStore]_vars

====
